---- MODULE Spec2Model ----
(***************************************************************************)
(* A model of the signaling layer of colour-match (webrtc-connection.js):  *)
(*   - the SDP codec: encodeSdp / decodeSdp over btoa, atob and JSON,      *)
(*   - the WebRTCConnection coordinator driving an RTCPeerConnection,      *)
(*   - the dweet.cc relay client (retrieveSdpFromDweet and friends).       *)
(* JavaScript strings are sequences of UTF-16 code units (integers).       *)
(* An operation that can throw returns a record with a `threw` field.      *)
(***************************************************************************)
EXTENDS Integers, Sequences, FiniteSets, TLC

\* ------------------------------------------------------------------------
\* Bounds of the model
\* ------------------------------------------------------------------------

\* Longest string value drawn as codec input.
MaxStrLen == 2

\* Longest raw text drawn as decodeSdp input.
MaxRawLen == 3

\* Method calls made on one coordinator; this also bounds the writes on a
\* channel and the candidates passed to an engine.
MaxCalls == 3

\* Engines (RTCPeerConnection instances) one coordinator constructs, one
\* per call of initAsOfferer / initAsAnswerer.
MaxEngines == 2

\* Clock ticks the gathering timeout is divided into.
GatherTicks == 2

\* Largest maxRetries handed to retrieveSdpFromDweet.
MaxRetries == 3

\* Publish calls (storeSdpOnDweet, storeIceCandidateOnDweet) made in a row.
MaxPublishes == 2

\* Math.random() returns a multiple of 2^-RandomBits.
RandomBits == 12

\* The largest number of parameters in the query of the page address.
MaxParams == 3

\* storeSdp calls made on one sessionStorage.
MaxStores == 3

\* Message events on one data channel.
MaxMessages == 3

\* ------------------------------------------------------------------------
\* Program constants
\* ------------------------------------------------------------------------

\* waitForIceGathering: setTimeout(..., 5000).
GatherTimeoutMs == 5000

\* retrieveSdpFromDweet: setTimeout(r, 1500), the same in the branch of a
\* response that is not ok and in the catch block.
RetryDelayMs == 1500

\* ------------------------------------------------------------------------
\* Generic helpers on sequences
\* ------------------------------------------------------------------------

RECURSIVE Concat(_)
\* The concatenation of a sequence of sequences.
Concat(ss) ==
    IF ss = <<>> THEN <<>> ELSE Head(ss) \o Concat(Tail(ss))

\* s with every element mapped through the operator F.
MapSeq(F(_), s) == [i \in 1..Len(s) |-> F(s[i])]

\* n copies of the element c.
Repeat(c, n) == [i \in 1..n |-> c]

\* All sequences over S of length at most n.
SeqsUpTo(S, n) == UNION {[1..k -> S] : k \in 0..n}

\* ------------------------------------------------------------------------
\* JSON values.  Every value is a record of the same shape so that any two
\* values can be compared:
\*   k     the kind: "null", "bool", "num", "str", "arr" or "obj"
\*   s     code units of a string, <<n>> for the number n, <<0>>/<<1>> for
\*         false/true
\*   items elements of an array; for an object, key1, value1, key2, ...
\*         (keys are "str" values), in insertion order
\* ------------------------------------------------------------------------

JNull == [k |-> "null", s |-> <<>>, items |-> <<>>]
JBool(b) == [k |-> "bool", s |-> <<IF b THEN 1 ELSE 0>>, items |-> <<>>]
JNum(n) == [k |-> "num", s |-> <<n>>, items |-> <<>>]
JStr(cs) == [k |-> "str", s |-> cs, items |-> <<>>]
JArr(vs) == [k |-> "arr", s |-> <<>>, items |-> vs]
JObj(kvs) == [k |-> "obj", s |-> <<>>, items |-> kvs]

\* ------------------------------------------------------------------------
\* JSON.stringify
\* ------------------------------------------------------------------------

\* The code unit of the hexadecimal digit d (lower case, as JSON.stringify
\* writes \u00XX escapes).
HexDigit(d) == IF d < 10 THEN 48 + d ELSE 97 + (d - 10)

\* The escape sequence JSON.stringify writes for code unit c inside a
\* string literal, or <<c>> when c is written as it is.
EscapeChar(c) ==
    CASE c = 34 -> <<92, 34>>                   \* "  ->  \"
      [] c = 92 -> <<92, 92>>                   \* \  ->  \\
      [] c = 8  -> <<92, 98>>                   \* \b
      [] c = 9  -> <<92, 116>>                  \* \t
      [] c = 10 -> <<92, 110>>                  \* \n
      [] c = 12 -> <<92, 102>>                  \* \f
      [] c = 13 -> <<92, 114>>                  \* \r
      [] c < 32 /\ c \notin {8, 9, 10, 12, 13} ->
            <<92, 117, 48, 48, HexDigit(c \div 16), HexDigit(c % 16)>>
      [] OTHER -> <<c>>

\* A string literal: the code units between double quotes, escaped.
QuoteString(cs) ==
    <<34>> \o Concat([i \in 1..Len(cs) |-> EscapeChar(cs[i])]) \o <<34>>

RECURSIVE Digits(_)
\* The decimal digits of the natural number n.
Digits(n) ==
    IF n < 10 THEN <<48 + n>> ELSE Digits(n \div 10) \o <<48 + (n % 10)>>

RECURSIVE JsonStringify(_)
RECURSIVE StringifyElems(_, _)
RECURSIVE StringifyMembers(_, _)
\* JSON.stringify(v): the JSON text of the value v, without white space.
JsonStringify(v) ==
    CASE v.k = "null" -> <<110, 117, 108, 108>>
      [] v.k = "bool" -> IF v.s[1] = 1 THEN <<116, 114, 117, 101>>
                                       ELSE <<102, 97, 108, 115, 101>>
      [] v.k = "num"  -> Digits(v.s[1])
      [] v.k = "str"  -> QuoteString(v.s)
      [] v.k = "arr"  -> <<91>> \o StringifyElems(v.items, 1) \o <<93>>
      [] v.k = "obj"  -> <<123>> \o StringifyMembers(v.items, 1) \o <<125>>

\* The elements of an array from index i on, separated by commas.
StringifyElems(vs, i) ==
    IF i > Len(vs) THEN <<>>
    ELSE (IF i > 1 THEN <<44>> ELSE <<>>)
         \o JsonStringify(vs[i]) \o StringifyElems(vs, i + 1)

\* The members "key":value of an object from index i (a key) on.
StringifyMembers(kvs, i) ==
    IF i > Len(kvs) THEN <<>>
    ELSE (IF i > 1 THEN <<44>> ELSE <<>>)
         \o QuoteString(kvs[i].s) \o <<58>> \o JsonStringify(kvs[i + 1])
         \o StringifyMembers(kvs, i + 2)

\* ------------------------------------------------------------------------
\* JSON.parse: a recursive-descent parser of JSON text.  A parse result is
\* [ok, v, i]: whether a value was read, the value, and the index after it.
\* Numbers are read as non-negative integers, the numbers of this model.
\* ------------------------------------------------------------------------

ParseFail == [ok |-> FALSE, v |-> JNull, i |-> 0]

IsWs(c) == c \in {32, 9, 10, 13}
IsDigit(c) == c >= 48 /\ c <= 57
IsHex(c) == IsDigit(c) \/ (c >= 97 /\ c <= 102) \/ (c >= 65 /\ c <= 70)
HexVal(c) == IF IsDigit(c) THEN c - 48
             ELSE IF c >= 97 THEN c - 97 + 10 ELSE c - 65 + 10

RECURSIVE SkipWs(_, _)
\* The first index at or after i that holds no white space.
SkipWs(t, i) ==
    IF i <= Len(t) /\ IsWs(t[i]) THEN SkipWs(t, i + 1) ELSE i

\* Whether the code units w stand in t at index i.
Matches(t, i, w) ==
    /\ i + Len(w) - 1 <= Len(t)
    /\ \A j \in 1..Len(w) : t[i + j - 1] = w[j]

RECURSIVE ParseChars(_, _, _)
\* The rest of a string literal, from index i (after the opening quote),
\* with acc the code units read so far.
ParseChars(t, i, acc) ==
    IF i > Len(t) THEN ParseFail
    ELSE LET c == t[i] IN
      CASE c = 34 -> [ok |-> TRUE, v |-> JStr(acc), i |-> i + 1]
        [] c < 32 -> ParseFail
        [] c = 92 ->
            IF i + 1 > Len(t) THEN ParseFail
            ELSE LET e == t[i + 1] IN
              CASE e \in {34, 92, 47} -> ParseChars(t, i + 2, Append(acc, e))
                [] e = 98  -> ParseChars(t, i + 2, Append(acc, 8))
                [] e = 102 -> ParseChars(t, i + 2, Append(acc, 12))
                [] e = 110 -> ParseChars(t, i + 2, Append(acc, 10))
                [] e = 114 -> ParseChars(t, i + 2, Append(acc, 13))
                [] e = 116 -> ParseChars(t, i + 2, Append(acc, 9))
                [] e = 117 ->
                    IF i + 5 <= Len(t) /\ \A j \in 2..5 : IsHex(t[i + j])
                    THEN ParseChars(t, i + 6, Append(acc,
                             HexVal(t[i + 2]) * 4096 + HexVal(t[i + 3]) * 256
                             + HexVal(t[i + 4]) * 16 + HexVal(t[i + 5])))
                    ELSE ParseFail
                [] OTHER -> ParseFail
        [] OTHER -> ParseChars(t, i + 1, Append(acc, c))

RECURSIVE ParseDigits(_, _, _)
\* The digits of a number from index i on, with n the value read so far.
ParseDigits(t, i, n) ==
    IF i <= Len(t) /\ IsDigit(t[i])
    THEN ParseDigits(t, i + 1, n * 10 + (t[i] - 48))
    ELSE [ok |-> TRUE, v |-> JNum(n), i |-> i]

RECURSIVE ParseValue(_, _)
RECURSIVE ParseElems(_, _, _)
RECURSIVE ParseMembers(_, _, _)
\* The JSON value that starts at index i of t, after white space.
ParseValue(t, i0) ==
    LET i == SkipWs(t, i0) IN
    IF i > Len(t) THEN ParseFail
    ELSE LET c == t[i] IN
      CASE c = 110 -> IF Matches(t, i, <<110, 117, 108, 108>>)
                      THEN [ok |-> TRUE, v |-> JNull, i |-> i + 4]
                      ELSE ParseFail
        [] c = 116 -> IF Matches(t, i, <<116, 114, 117, 101>>)
                      THEN [ok |-> TRUE, v |-> JBool(TRUE), i |-> i + 4]
                      ELSE ParseFail
        [] c = 102 -> IF Matches(t, i, <<102, 97, 108, 115, 101>>)
                      THEN [ok |-> TRUE, v |-> JBool(FALSE), i |-> i + 5]
                      ELSE ParseFail
        [] c = 34  -> ParseChars(t, i + 1, <<>>)
        [] c = 48  -> [ok |-> TRUE, v |-> JNum(0), i |-> i + 1]
        [] c >= 49 /\ c <= 57 -> ParseDigits(t, i, 0)
        [] c = 91  ->
            LET j == SkipWs(t, i + 1) IN
            IF j <= Len(t) /\ t[j] = 93
            THEN [ok |-> TRUE, v |-> JArr(<<>>), i |-> j + 1]
            ELSE ParseElems(t, i + 1, <<>>)
        [] c = 123 ->
            LET j == SkipWs(t, i + 1) IN
            IF j <= Len(t) /\ t[j] = 125
            THEN [ok |-> TRUE, v |-> JObj(<<>>), i |-> j + 1]
            ELSE ParseMembers(t, i + 1, <<>>)
        [] OTHER -> ParseFail

\* The elements of an array from index i on (an element is due), with acc
\* the elements read so far.
ParseElems(t, i, acc) ==
    LET r == ParseValue(t, i) IN
    IF ~r.ok THEN ParseFail
    ELSE LET j == SkipWs(t, r.i) IN
      IF j > Len(t) THEN ParseFail
      ELSE IF t[j] = 44 THEN ParseElems(t, j + 1, Append(acc, r.v))
      ELSE IF t[j] = 93
           THEN [ok |-> TRUE, v |-> JArr(Append(acc, r.v)), i |-> j + 1]
      ELSE ParseFail

\* The members of an object from index i on (a key is due), with acc the
\* keys and values read so far.
ParseMembers(t, i, acc) ==
    LET a == SkipWs(t, i) IN
    IF a > Len(t) \/ t[a] # 34 THEN ParseFail
    ELSE LET key == ParseChars(t, a + 1, <<>>) IN
      IF ~key.ok THEN ParseFail
      ELSE LET b == SkipWs(t, key.i) IN
        IF b > Len(t) \/ t[b] # 58 THEN ParseFail
        ELSE LET r == ParseValue(t, b + 1) IN
          IF ~r.ok THEN ParseFail
          ELSE LET j == SkipWs(t, r.i)
                   more == Append(Append(acc, key.v), r.v) IN
            IF j > Len(t) THEN ParseFail
            ELSE IF t[j] = 44 THEN ParseMembers(t, j + 1, more)
            ELSE IF t[j] = 125
                 THEN [ok |-> TRUE, v |-> JObj(more), i |-> j + 1]
            ELSE ParseFail

\* JSON.parse(t): [threw, v].  It throws a SyntaxError unless t is one
\* JSON value, with nothing but white space around it.
JsonParse(t) ==
    LET r == ParseValue(t, 1) IN
    IF r.ok /\ SkipWs(t, r.i) = Len(t) + 1
    THEN [threw |-> FALSE, v |-> r.v]
    ELSE [threw |-> TRUE, v |-> JNull]

\* ------------------------------------------------------------------------
\* btoa and atob (base64 of "binary strings")
\* ------------------------------------------------------------------------

\* The code unit of the base64 digit d in 0..63: A-Z, a-z, 0-9, + and /.
B64Char(d) ==
    CASE d < 26 -> 65 + d
      [] d >= 26 /\ d < 52 -> 97 + (d - 26)
      [] d >= 52 /\ d < 62 -> 48 + (d - 52)
      [] d = 62 -> 43
      [] OTHER  -> 47

\* Whether the code unit c is a digit of the base64 alphabet.
IsB64Char(c) ==
    \/ (c >= 65 /\ c <= 90)
    \/ (c >= 97 /\ c <= 122)
    \/ (c >= 48 /\ c <= 57)
    \/ c = 43
    \/ c = 47

\* The value in 0..63 of the base64 digit c.
B64Val(c) ==
    CASE c >= 65 /\ c <= 90  -> c - 65
      [] c >= 97 /\ c <= 122 -> c - 97 + 26
      [] c >= 48 /\ c <= 57  -> c - 48 + 52
      [] c = 43 -> 62
      [] OTHER  -> 63

RECURSIVE B64Encode(_)
\* The base64 text of the bytes bs: 4 digits per 3 bytes, the last group
\* padded with "=" (61).
B64Encode(bs) ==
    IF Len(bs) = 0 THEN <<>>
    ELSE IF Len(bs) = 1 THEN
        LET n == bs[1] * 65536 IN
        <<B64Char(n \div 262144), B64Char((n \div 4096) % 64), 61, 61>>
    ELSE IF Len(bs) = 2 THEN
        LET n == bs[1] * 65536 + bs[2] * 256 IN
        <<B64Char(n \div 262144), B64Char((n \div 4096) % 64),
          B64Char((n \div 64) % 64), 61>>
    ELSE
        LET n == bs[1] * 65536 + bs[2] * 256 + bs[3] IN
        <<B64Char(n \div 262144), B64Char((n \div 4096) % 64),
          B64Char((n \div 64) % 64), B64Char(n % 64)>>
        \o B64Encode(SubSeq(bs, 4, Len(bs)))

\* btoa(s): [threw, s].  It throws InvalidCharacterError when s holds a
\* code unit above 0xFF; otherwise every code unit is one byte.
Btoa(s) ==
    IF \E i \in 1..Len(s) : s[i] > 255
    THEN [threw |-> TRUE, s |-> <<>>]
    ELSE [threw |-> FALSE, s |-> B64Encode(s)]

RECURSIVE B64Decode(_)
\* The bytes of the base64 digits ds (no padding, length not 1 mod 4); the
\* bits left over in a last group of 2 or 3 digits are discarded.
B64Decode(ds) ==
    IF Len(ds) = 0 THEN <<>>
    ELSE IF Len(ds) = 2 THEN
        LET n == B64Val(ds[1]) * 262144 + B64Val(ds[2]) * 4096 IN
        <<n \div 65536>>
    ELSE IF Len(ds) = 3 THEN
        LET n == B64Val(ds[1]) * 262144 + B64Val(ds[2]) * 4096
                 + B64Val(ds[3]) * 64 IN
        <<n \div 65536, (n \div 256) % 256>>
    ELSE
        LET n == B64Val(ds[1]) * 262144 + B64Val(ds[2]) * 4096
                 + B64Val(ds[3]) * 64 + B64Val(ds[4]) IN
        <<n \div 65536, (n \div 256) % 256, n % 256>>
        \o B64Decode(SubSeq(ds, 5, Len(ds)))

\* s without its ASCII white space (tab, LF, FF, CR, space).
StripAsciiWs(s) == SelectSeq(s, LAMBDA c : c \notin {9, 10, 12, 13, 32})

\* atob(s): [threw, s], the forgiving-base64 decode.  White space is
\* removed; when the length is a multiple of 4, one or two trailing "="
\* are removed; it throws InvalidCharacterError when the length is then 1
\* mod 4 or a code unit is no base64 digit.
Atob(s) ==
    LET d1 == StripAsciiWs(s)
        n1 == Len(d1)
        d2 == IF n1 % 4 = 0 /\ n1 >= 2 /\ d1[n1] = 61 /\ d1[n1 - 1] = 61
              THEN SubSeq(d1, 1, n1 - 2)
              ELSE IF n1 % 4 = 0 /\ n1 >= 1 /\ d1[n1] = 61
              THEN SubSeq(d1, 1, n1 - 1)
              ELSE d1
    IN  IF Len(d2) % 4 = 1 \/ \E i \in 1..Len(d2) : ~IsB64Char(d2[i])
        THEN [threw |-> TRUE, s |-> <<>>]
        ELSE [threw |-> FALSE, s |-> B64Decode(d2)]

\* ------------------------------------------------------------------------
\* The SDP codec
\* ------------------------------------------------------------------------

\* A JavaScript argument that is a string (str) or is not one (null,
\* undefined, a number): [isStr, s].
StrArg(cs) == [isStr |-> TRUE, s |-> cs]
NonStrArg == [isStr |-> FALSE, s |-> <<>>]

\* encodeSdp(sdp) = btoa(JSON.stringify(sdp)): [threw, s].
encodeSdp(sdp) == Btoa(JsonStringify(sdp))

\* String.prototype.replace(/-/g, '+').replace(/_/g, '/').
FromUrlSafe(cs) ==
    [i \in 1..Len(cs) |-> IF cs[i] = 45 THEN 43
                          ELSE IF cs[i] = 95 THEN 47 ELSE cs[i]]

\* base64 + '='.repeat((4 - base64.length % 4) % 4).
PadTo4(cs) == cs \o Repeat(61, (4 - (Len(cs) % 4)) % 4)

\* The body of decodeSdp's try block: [threw, v].  encoded.replace throws a
\* TypeError when encoded is no string; atob and JSON.parse throw on text
\* they cannot read.
DecodeTry(encoded) ==
    IF ~encoded.isStr THEN [threw |-> TRUE, v |-> JNull]
    ELSE LET base64 == FromUrlSafe(encoded.s)
             padded == PadTo4(base64)
             bin == Atob(padded)
         IN  IF bin.threw THEN [threw |-> TRUE, v |-> JNull]
             ELSE JsonParse(bin.s)

\* decodeSdp with the argument used outside the try block: a non-string
\* argument raises to the caller.
decodeSdpUnguarded(encoded) ==
    IF ~encoded.isStr THEN [threw |-> TRUE, v |-> JNull]
    ELSE LET r == DecodeTry(encoded) IN
         IF r.threw THEN [threw |-> FALSE, v |-> JNull] ELSE r

\* decodeSdp without the URL-safe translation and the re-padding (the
\* decodeSdp of the earlier copy of the file, src/unnamed/part_000).
decodeSdpPlain(encoded) ==
    LET bin == IF encoded.isStr THEN Atob(encoded.s)
               ELSE Atob(<<110, 117, 108, 108>>)
        r == IF bin.threw THEN [threw |-> TRUE, v |-> JNull]
             ELSE JsonParse(bin.s)
    IN  IF r.threw THEN [threw |-> FALSE, v |-> JNull] ELSE r

\* decodeSdp(encoded): [threw, v].  Whatever the try block throws is caught,
\* logged, and null is returned.
decodeSdp(encoded) ==
    LET r == DecodeTry(encoded) IN
    IF r.threw THEN [threw |-> FALSE, v |-> JNull] ELSE r

\* ------------------------------------------------------------------------
\* State
\* ------------------------------------------------------------------------

VARIABLES
    \* --- codec calls ---
    sdp,            \* the value handed to encodeSdp
    encodeResult,   \* [called, threw, s]: what encodeSdp did
    encoded,        \* the argument held for decodeSdp: StrArg(..) or NonStrArg
    encodedFrom,    \* where it came from: "none", "encodeSdp", "urlsafe", "input"
    decodeResult,   \* [called, threw, v]: what decodeSdp did
    codecPc,        \* "start", "encoded", "ready", "decoded"
    \* --- the WebRTCConnection object ---
    pc,             \* this.pc: 0 (null) or the engine it refers to
    dataChannel,    \* this.dataChannel: 0 (null) or the channel it refers to
    isInitiator,    \* this.isInitiator
    \* --- the engine capability (RTCPeerConnection, RTCDataChannel) ---
    engines,        \* engine id -> its state (see EngineAbsent)
    channels,       \* channel id -> [readyState, writes]; the channel of
                    \* engine e has id e
    \* --- control state ---
    tasks,          \* engine id -> the init call that created the engine
    call,           \* the coordinator method called in the last step
    callsMade,      \* how many coordinator methods have been called
    \* --- one call of retrieveSdpFromDweet ---
    maxRetries,     \* the parameter maxRetries
    attempt,        \* the loop variable attempt
    fetchPc,        \* "idle", "direct", "proxy" (a fetch is awaited),
                    \* "delay" (the retry timer is awaited) or "done"
    response,       \* the last response received: [ok, body]
    fetchResult,    \* [returned, v]: what the call returned
    requests,       \* how many times fetch was called
    kinds,          \* how each attempt so far ended, in order
    gaps,           \* gaps[i]: the time in ms the call waited between the
                    \* end of attempt i and the start of attempt i+1
    fetchArgs,      \* [sessionId, type]: the arguments of the call when it
                    \* is answered by the relay's store
    \* --- publishing: storeSdpOnDweet, storeIceCandidateOnDweet ---
    pubOp,          \* the publish call in progress or last made:
                    \* [fn, sessionId, type, isOfferer, payload]
    pubPc,          \* "idle", "direct", "proxy" (a fetch is awaited), "done"
    pubRequests,    \* the requests the call has made: [url, method, body]
    pubResult,      \* [returned, threw, v, ended]: how the call ended
    pubCount,       \* publish calls made so far
    pubLog,         \* the publish calls that returned true, in order
    \* --- the relay (dweet.cc) ---
    relayStore,     \* the relay: a set of [topic, content], one per topic
    \* --- retrieveIceCandidatesFromDweet ---
    iceArgs,        \* [sessionId, isOfferer]
    icePc,          \* "idle", "direct", "proxy", "done"
    iceResponse,    \* the response received: [ok, body]
    iceResult,      \* [returned, threw, v, ended]: how the call ended
    \* --- reading one published body in the two response shapes ---
    shapeBody,      \* the published body P
    shapeResults,   \* <<function, shape>> -> [read, v]: what was returned
    \* --- generateSessionId ---
    random,         \* Math.random() is random / 2^RandomBits
    generatedId,    \* [called, s]: the identifier returned
    \* --- extractSessionFromUrl ---
    search,         \* window.location.search
    extracted,      \* [called, isNull, sessionId, type]: the value returned
    \* --- storeSdp / retrieveSdp ---
    storage,        \* sessionStorage: a set of [key, value], one per key
    localCall,      \* the last call: [fn, sessionId, type, threw, v]
    lastStoreSdp,   \* <<sessionId, type>> -> [called, d]: the last storeSdp
    localCount,     \* storeSdp calls made so far
    \* --- the message handler of a data channel ---
    onMessageCallback, \* whether onMessage(callback) has set a callback
    msgReceived,    \* the message events so far: [data, hadCallback]
    msgDelivered,   \* the values the callback was invoked with
    msgEscaped,     \* whether an error left the handler
    \* --- topic names of two (sessionId, kind) pairs ---
    topicA,         \* [sid, kind]
    topicB,         \* [sid, kind]
    derived,        \* [called, storeA, fetchA, storeB, fetchB, before, after]
    \* --- the callbacks of a coordinator and the events of its engines ---
    slots,          \* kind -> the callback registered: null, "f" or "g"
    invocations,    \* the callback invocations so far: [kind, cb, arg]
    event,          \* the last event fired: [kind, on, arg, slot]
    eventsFired,    \* events fired so far
    errorsLogged,   \* console.error lines written by channel.onerror
    \* --- history of addIceCandidate ---
    withheld,       \* addIceCandidate calls that did not reach an engine
    \* --- the relay-backed handshake of one session ---
    hs              \* [sid, offer, answer, offerer, answerer, attempts,
                    \*  offererRemote, answererRemote]

codecVars == <<sdp, encodeResult, encoded, encodedFrom, decodeResult, codecPc>>

coordVars ==
    <<pc, dataChannel, isInitiator, engines, channels, tasks, call, callsMade>>

relayVars ==
    <<maxRetries, attempt, fetchPc, response, fetchResult, requests, kinds,
      gaps>>

fetchVars == <<relayVars, fetchArgs>>

pubVars == <<pubOp, pubPc, pubRequests, pubResult, pubCount>>

iceVars == <<iceArgs, icePc, iceResponse, iceResult>>

exchVars == <<pubVars, pubLog, relayStore, iceVars>>

shapeVars == <<shapeBody, shapeResults>>

sessionVars == <<random, generatedId>>

urlVars == <<search, extracted>>

localVars == <<storage, localCall, lastStoreSdp, localCount>>

msgVars == <<onMessageCallback, msgReceived, msgDelivered, msgEscaped>>

topicVars == <<topicA, topicB, derived>>

eventVars == <<slots, invocations, event, eventsFired, errorsLogged>>

histVars == <<withheld>>

handshakeVars == <<hs>>

utilVars ==
    <<shapeVars, sessionVars, urlVars, localVars, msgVars, topicVars,
      eventVars, histVars, handshakeVars>>

vars == <<codecVars, coordVars, fetchVars, exchVars, utilVars>>

\* ------------------------------------------------------------------------
\* The engine capability and the coordinator: data
\* ------------------------------------------------------------------------

EngineIds == 1..MaxEngines

\* Remote descriptions a caller may supply.
RemoteSdps == {"sdpA"}

\* An RTCPeerConnection:
\*   st          "absent" (not constructed), "open" or "closed"
\*   local       type of the local description: "none", "offer", "answer"
\*   remote      the remote description: "none" or one of RemoteSdps
\*   settingRemote  the description of a setRemoteDescription in progress
\*               that the coordinator's setRemoteDescription started
\*   gathering   iceGatheringState: "new", "gathering", "complete"
\*   handler     the init call whose wait onicegatheringstatechange resolves
\*   iceCalls    addIceCandidate calls received
\*   channelRequests  the createDataChannel calls received: [label, ordered]
EngineAbsent ==
    [st |-> "absent", local |-> "none", remote |-> "none",
     settingRemote |-> "none", gathering |-> "new", handler |-> 0,
     iceCalls |-> 0, channelRequests |-> <<>>]

\* new RTCPeerConnection(configuration).
EngineNew == [EngineAbsent EXCEPT !.st = "open"]

\* An RTCDataChannel: readyState "none" (no channel), "connecting", "open",
\* "closing", "closed"; writes: the texts passed to send().
ChannelNone == [readyState |-> "none", writes |-> <<>>]

\* pc.localDescription: null, or the description of type `type` that
\* engine `by` holds.
NoDescription == [type |-> "none", by |-> 0]
LocalDescriptionIn(engs, e) ==
    IF engs[e].local = "none" THEN NoDescription
    ELSE [type |-> engs[e].local, by |-> e]

\* An init call (initAsOfferer / initAsAnswerer):
\*   role     "none" (not called), "offerer", "answerer"
\*   step     the await it is suspended at: "createOffer", "setRemote",
\*            "createAnswer", "setLocal", "gather"; or "done", "rejected"
\*   on       the engine the awaited operation was called on
\*   arg      the offer handed to initAsAnswerer
\*   elapsed  clock ticks spent in the gathering wait
\*   via      how the wait resolved: "immediate", "event", "timeout"
\*   result   the description returned
TaskNone ==
    [role |-> "none", step |-> "none", on |-> 0, arg |-> "none",
     elapsed |-> 0, via |-> "none", result |-> NoDescription]

\* No coordinator method was called in the last step.  Otherwise `call`
\* holds the method (op), what it returned (ret), whether it threw, its
\* argument (arg), and whether the step before was a call of the same
\* method (again).
NoCall ==
    [op |-> "none", ret |-> FALSE, threw |-> FALSE, arg |-> JNull,
     again |-> FALSE]

\* The coordinator after construction, with no engine yet.
CoordIdle ==
    /\ pc = 0
    /\ dataChannel = 0
    /\ isInitiator = FALSE
    /\ engines = [e \in EngineIds |-> EngineAbsent]
    /\ channels = [e \in EngineIds |-> ChannelNone]
    /\ tasks = [e \in EngineIds |-> TaskNone]
    /\ call = NoCall
    /\ callsMade = 0

\* ------------------------------------------------------------------------
\* The relay client: data
\* ------------------------------------------------------------------------

NoResponse == [ok |-> FALSE, body |-> <<>>]
NotReturned == [returned |-> FALSE, v |-> JNull]

\* No call of retrieveSdpFromDweet has been made.
RelayIdle ==
    /\ maxRetries = 0
    /\ attempt = 0
    /\ fetchPc = "idle"
    /\ response = NoResponse
    /\ fetchResult = NotReturned
    /\ requests = 0
    /\ kinds = <<>>
    /\ gaps = <<>>

\* ------------------------------------------------------------------------
\* Publishing, the relay, and the helpers: data
\* ------------------------------------------------------------------------

NoFetchArgs == [sessionId |-> <<>>, type |-> <<>>]
NoPublish ==
    [fn |-> "none", sessionId |-> <<>>, type |-> <<>>, isOfferer |-> FALSE,
     payload |-> JNull, now |-> 0]
\* How a call ended: it returned v, or threw, or neither yet; `ended` tells
\* how its last request ended: "none", "ok", "notok" (an HTTP response
\* that is or is not a success), "network" (the fetch rejected).
NoOutcome ==
    [returned |-> FALSE, threw |-> FALSE, v |-> JNull, ended |-> "none"]
NoIceArgs == [sessionId |-> <<>>, isOfferer |-> FALSE]

\* No publish and no candidate fetch has been made; the relay holds
\* nothing.
ExchIdle ==
    /\ fetchArgs = NoFetchArgs
    /\ pubOp = NoPublish
    /\ pubPc = "idle"
    /\ pubRequests = <<>>
    /\ pubResult = NoOutcome
    /\ pubCount = 0
    /\ pubLog = <<>>
    /\ relayStore = {}
    /\ iceArgs = NoIceArgs
    /\ icePc = "idle"
    /\ iceResponse = NoResponse
    /\ iceResult = NoOutcome

\* The two functions that read a relay response and the two shapes a
\* response body can have.
ShapeCases == {"sdp", "ice"} \X {"envelope", "bare"}

\* [read, v]: nothing has been read in this case yet.
NotRead == [read |-> FALSE, v |-> JNull]

ShapeIdle ==
    /\ shapeBody = JNull
    /\ shapeResults = [c \in ShapeCases |-> NotRead]

SessionIdle ==
    /\ random = 0
    /\ generatedId = [called |-> FALSE, s |-> <<>>]

NotExtracted ==
    [called |-> FALSE, isNull |-> FALSE, sessionId |-> <<>>, type |-> <<>>]

UrlIdle ==
    /\ search = <<>>
    /\ extracted = NotExtracted

\* The session ids and types the local cache is called with.
LocalIds == {<<65, 49>>, <<66, 50>>}
LocalTypes == {<<111, 102, 102, 101, 114>>, <<97, 110, 115, 119, 101, 114>>}

NoLocalCall ==
    [fn |-> "none", sessionId |-> <<>>, type |-> <<>>, threw |-> FALSE,
     v |-> JNull]

NeverStored == [called |-> FALSE, d |-> JNull]

NoTopic == [sid |-> <<>>, kind |-> "none"]

NotDerived ==
    [called |-> FALSE, storeA |-> <<>>, fetchA |-> <<>>, storeB |-> <<>>,
     fetchB |-> <<>>, before |-> <<>>, after |-> <<>>]

TopicIdle ==
    /\ topicA = NoTopic
    /\ topicB = NoTopic
    /\ derived = NotDerived

\* The kinds of event a callback can be registered for, and the methods
\* that register: onMessage, onConnectionStateChange,
\* onDataChannelStateChange, onIceCandidate.
EventKinds == {"message", "connection", "channel", "candidate"}

\* The callbacks an application registers, by name: "f" and "g"; and the
\* value null of a callback field.
Callbacks == {<<102>>, <<103>>}
NoCallback == <<>>

NoEvent == [kind |-> "none", on |-> 0, arg |-> JNull, slot |-> NoCallback]

\* The handshake of a session: the session identifier, the descriptions
\* the two engines made, where each peer is in its part of the protocol,
\* the fetch attempts of each peer, and the remote description each peer
\* has committed (null: none).
NoHandshake ==
    [sid |-> <<>>, offer |-> JNull, answer |-> JNull, offerer |-> "none",
     answerer |-> "none", attempts |-> <<0, 0>>, offererRemote |-> JNull,
     answererRemote |-> JNull]

\* The constructor leaves the four callback fields null; no event has
\* fired and no candidate was passed.
EventIdle ==
    /\ slots = [k \in EventKinds |-> NoCallback]
    /\ invocations = <<>>
    /\ event = NoEvent
    /\ eventsFired = 0
    /\ errorsLogged = 0
    /\ withheld = 0
    /\ hs = NoHandshake

MsgIdle ==
    /\ onMessageCallback = FALSE
    /\ msgReceived = <<>>
    /\ msgDelivered = <<>>
    /\ msgEscaped = FALSE

LocalIdle ==
    /\ storage = {}
    /\ localCall = NoLocalCall
    /\ lastStoreSdp = [p \in LocalIds \X LocalTypes |-> NeverStored]
    /\ localCount = 0

\* ------------------------------------------------------------------------
\* Inputs of the codec
\* ------------------------------------------------------------------------

\* Code units strings are drawn from: a " \ LF e-acute > ? and the euro
\* sign (above 0xFF).
Alphabet == {97, 34, 92, 10, 233, 62, 63, 8364}

Strings == SeqsUpTo(Alphabet, MaxStrLen)

KeyType == JStr(<<116, 121, 112, 101>>)          \* "type"
KeySdp == JStr(<<115, 100, 112>>)                \* "sdp"
StrOffer == JStr(<<111, 102, 102, 101, 114>>)    \* "offer"
StrAnswer == JStr(<<97, 110, 115, 119, 101, 114>>) \* "answer"

\* A session description {type, sdp}, as RTCSessionDescription serializes.
Description(type, cs) == JObj(<<KeyType, type, KeySdp, JStr(cs)>>)

\* The JSON-serializable values encodeSdp is tried on.
JsonValues ==
    {JNull, JBool(TRUE), JBool(FALSE), JNum(0), JNum(7), JNum(405),
     JArr(<<>>), JObj(<<>>)}
    \cup {JStr(cs) : cs \in Strings}
    \cup {Description(ty, cs) : ty \in {StrOffer, StrAnswer}, cs \in Strings}
    \cup {JArr(<<JStr(cs), JNull, JNum(12)>>) : cs \in Strings}

\* The standard base64 text cs rewritten to the URL-safe variant: "+" to
\* "-", "/" to "_", trailing "=" removed.
RECURSIVE StripPadding(_)
StripPadding(cs) ==
    IF Len(cs) > 0 /\ cs[Len(cs)] = 61
    THEN StripPadding(SubSeq(cs, 1, Len(cs) - 1)) ELSE cs

ToUrlSafe(cs) ==
    LET swapped == [i \in 1..Len(cs) |-> IF cs[i] = 43 THEN 45
                                         ELSE IF cs[i] = 47 THEN 95 ELSE cs[i]]
    IN  StripPadding(swapped)

\* Texts that are not JSON: hi  {  {"a":  [1,  nul  'a'  "a  1 2
NonJsonTexts ==
    {<<104, 105>>, <<123>>, <<123, 34, 97, 34, 58>>, <<91, 49, 44>>,
     <<110, 117, 108>>, <<39, 97, 39>>, <<34, 97>>, <<49, 32, 50>>}

\* Code units raw inputs are drawn from: A M = - ! and space.
RawAlphabet == {65, 77, 61, 45, 33, 32}

\* What a caller may hand to decodeSdp besides an encoding: a non-string,
\* short raw texts (the empty string among them), base64 of non-JSON text.
RawInputs ==
    {NonStrArg}
    \cup {StrArg(cs) : cs \in SeqsUpTo(RawAlphabet, MaxRawLen)}
    \cup {StrArg(Btoa(txt).s) : txt \in NonJsonTexts}

\* ------------------------------------------------------------------------
\* Codec: initial state and actions
\* ------------------------------------------------------------------------

NoEncode == [called |-> FALSE, threw |-> FALSE, s |-> <<>>]
NoDecode == [called |-> FALSE, threw |-> FALSE, v |-> JNull]

CodecIdle ==
    /\ sdp = JNull
    /\ encodeResult = NoEncode
    /\ encoded = NonStrArg
    /\ encodedFrom = "none"
    /\ decodeResult = NoDecode
    /\ codecPc = "start"

CodecInit ==
    /\ sdp \in JsonValues
    /\ encodeResult = NoEncode
    /\ encoded = NonStrArg
    /\ encodedFrom = "none"
    /\ decodeResult = NoDecode
    /\ codecPc = "start"
    /\ CoordIdle
    /\ RelayIdle
    /\ ExchIdle
    /\ ShapeIdle
    /\ SessionIdle
    /\ UrlIdle
    /\ LocalIdle
    /\ MsgIdle
    /\ TopicIdle
    /\ EventIdle

\* A call encodeSdp(sdp).
EncodeSdp ==
    /\ codecPc = "start"
    /\ LET r == encodeSdp(sdp) IN
        /\ encodeResult' = [called |-> TRUE, threw |-> r.threw, s |-> r.s]
        /\ encoded' = IF r.threw THEN encoded ELSE StrArg(r.s)
        /\ encodedFrom' = IF r.threw THEN encodedFrom ELSE "encodeSdp"
        /\ codecPc' = IF r.threw THEN "encoded" ELSE "ready"
    /\ UNCHANGED <<sdp, decodeResult>>

\* The encoded text travels in its URL-safe form.
RewriteUrlSafe ==
    /\ codecPc = "ready"
    /\ encodedFrom = "encodeSdp"
    /\ encoded' = StrArg(ToUrlSafe(encoded.s))
    /\ encodedFrom' = "urlsafe"
    /\ UNCHANGED <<sdp, encodeResult, decodeResult, codecPc>>

\* A caller supplies text of its own (a URL parameter, a relay field).
SupplyInput ==
    /\ codecPc = "start"
    /\ \E e \in RawInputs :
        encoded' = e
    /\ encodedFrom' = "input"
    /\ codecPc' = "ready"
    /\ sdp' = JNull
    /\ UNCHANGED <<encodeResult, decodeResult>>

\* A call decodeSdp(encoded).
DecodeSdp ==
    /\ codecPc = "ready"
    /\ LET r == decodeSdp(encoded) IN
        decodeResult' = [called |-> TRUE, threw |-> r.threw, v |-> r.v]
    /\ codecPc' = "decoded"
    /\ UNCHANGED <<sdp, encodeResult, encoded, encodedFrom>>

CodecNext ==
    \/ EncodeSdp
    \/ RewriteUrlSafe
    \/ SupplyInput
    \/ DecodeSdp

SpecCodec ==
    CodecInit /\
    [][CodecNext /\ UNCHANGED <<coordVars, fetchVars, exchVars, utilVars>>]_vars

\* ------------------------------------------------------------------------
\* Codec: properties
\* ------------------------------------------------------------------------

\* C1: for every JSON-serializable value x, encodeSdp(x) does not fail and
\* decodeSdp(encodeSdp(x)) equals x.
C1_RoundTrip ==
    /\ encodeResult.called => ~encodeResult.threw
    /\ (decodeResult.called /\ encodedFrom = "encodeSdp") =>
            (~decodeResult.threw /\ decodeResult.v = sdp)

\* Whether the text cs holds the code unit c.
Holds(cs, c) == \E i \in 1..Len(cs) : cs[i] = c

Malformed(e) ==
    \/ ~e.isStr
    \/ e.s = <<>>
    \/ \E i \in 1..Len(e.s) :
          ~IsB64Char(e.s[i]) /\ e.s[i] \notin {45, 95, 61, 9, 10, 12, 13, 32}
    \/ \E txt \in NonJsonTexts : e.s = Btoa(txt).s

\* C3: decodeSdp never raises to its caller, and returns null for every
\* malformed input.
C3_DecodeNeverRaises ==
    decodeResult.called =>
        /\ ~decodeResult.threw
        /\ Malformed(encoded) => decodeResult.v = JNull

\* C3 witness: decodeSdp was called with a non-string and returned null.
C3_Witness ==
    /\ decodeResult.called
    /\ ~encoded.isStr
    /\ encodedFrom = "input"
    /\ ~decodeResult.threw
    /\ decodeResult.v = JNull

\* ------------------------------------------------------------------------
\* The coordinator (class WebRTCConnection): methods
\* ------------------------------------------------------------------------

\* A method call as recorded in `call`.
Called(op, ret, threw, arg) ==
    [op |-> op, ret |-> ret, threw |-> threw, arg |-> arg,
     again |-> (call.op = op)]

\* One more method call is made, within the bound.
CountCall ==
    /\ callsMade < MaxCalls
    /\ callsMade' = callsMade + 1

\* The engine the next new RTCPeerConnection(...) yields.
FreshEngine == CHOOSE e \in EngineIds :
    /\ engines[e].st = "absent"
    /\ \A d \in EngineIds : d < e => engines[d].st # "absent"

\* initAsAnswerer requesting the answer first.
FirstAwaitAnswer(role) ==
    IF role = "offerer" THEN "createOffer" ELSE "createAnswer"

\* The first engine operation an init call awaits: createOffer() in
\* initAsOfferer, setRemoteDescription(offerSdp) in initAsAnswerer.
FirstAwait(role) ==
    IF role = "offerer" THEN "createOffer" ELSE "setRemote"

\* createDataChannel('colors', {ordered: true})
ColorsChannel == [label |-> "colors", ordered |-> TRUE]

\* Both init calls creating the channel.
ChannelRequestsBoth(role) == <<ColorsChannel>>

\* The createDataChannel calls an init call makes on its new engine: one
\* in initAsOfferer, none in initAsAnswerer.
ChannelRequests(role) == IF role = "offerer" THEN <<ColorsChannel>> ELSE <<>>

\* this.dataChannel and the channels after an init call on the new engine
\* e: a requested channel exists, connecting, and is stored in
\* this.dataChannel.
ChannelsAfterInit(role, e) ==
    IF ChannelRequests(role) # <<>>
    THEN [dataChannel |-> e,
          channels |-> [channels EXCEPT ![e] =
                           [readyState |-> "connecting", writes |-> <<>>]]]
    ELSE [dataChannel |-> dataChannel, channels |-> channels]

\* initAsOfferer(), up to its first await: a new engine, a data channel
\* created on it ('colors', ordered), and createOffer() called.
InitAsOfferer ==
    /\ CountCall
    /\ \E e \in EngineIds : engines[e].st = "absent"
    /\ LET e == FreshEngine IN
        /\ isInitiator' = TRUE
        /\ pc' = e
        /\ engines' = [engines EXCEPT ![e] =
                [EngineNew EXCEPT
                    !.channelRequests = ChannelRequests("offerer")]]
        /\ channels' = ChannelsAfterInit("offerer", e).channels
        /\ dataChannel' = ChannelsAfterInit("offerer", e).dataChannel
        /\ tasks' = [tasks EXCEPT ![e] =
                        [TaskNone EXCEPT !.role = "offerer",
                                         !.step = FirstAwait("offerer"),
                                         !.on = e]]
    /\ call' = Called("initAsOfferer", FALSE, FALSE, JNull)

\* initAsAnswerer(offerSdp), up to its first await: a new engine, and
\* setRemoteDescription(offerSdp) called on it.  No channel is created.
InitAsAnswerer ==
    /\ CountCall
    /\ \E e \in EngineIds : engines[e].st = "absent"
    /\ \E offer \in RemoteSdps :
        LET e == FreshEngine IN
        /\ isInitiator' = FALSE
        /\ pc' = e
        /\ engines' = [engines EXCEPT ![e] =
                [EngineNew EXCEPT
                    !.channelRequests = ChannelRequests("answerer")]]
        /\ channels' = ChannelsAfterInit("answerer", e).channels
        /\ dataChannel' = ChannelsAfterInit("answerer", e).dataChannel
        /\ tasks' = [tasks EXCEPT ![e] =
                        [TaskNone EXCEPT !.role = "answerer",
                                         !.step = FirstAwait("answerer"),
                                         !.on = e, !.arg = offer]]
    /\ call' = Called("initAsAnswerer", FALSE, FALSE, JNull)

\* The guard of addIceCandidate: this.pc && this.pc.remoteDescription.
CanForwardCandidateUnguarded == pc # 0

\* The guard taking a remote description that is being committed for one
\* that is.
CanForwardCandidatePending ==
    pc # 0 /\ (engines[pc].remote # "none"
                   \/ engines[pc].settingRemote # "none")

CanForwardCandidate == pc # 0 /\ engines[pc].remote # "none"

\* addIceCandidate(candidate): the candidate is passed to the engine only
\* under the guard; ret tells whether it was.
AddIceCandidate ==
    /\ CountCall
    /\ IF CanForwardCandidate
       THEN /\ engines' = [engines EXCEPT ![pc].iceCalls = @ + 1]
            /\ call' = Called("addIceCandidate", TRUE, FALSE, JNull)
       ELSE /\ engines' = engines
            /\ call' = Called("addIceCandidate", FALSE, FALSE, JNull)
    /\ UNCHANGED <<pc, dataChannel, isInitiator, channels, tasks>>

\* setRemoteDescription without its guard.
HasEngineUnchecked == TRUE

\* The guard of setRemoteDescription: if (this.pc).
HasEngine == pc # 0

\* setRemoteDescription(sdp): when there is an engine, its
\* setRemoteDescription is called; the engine commits it later.  Calling
\* a method of this.pc when it is null throws a TypeError.
SetRemoteDescription ==
    /\ CountCall
    /\ \E rsdp \in RemoteSdps :
        IF pc # 0 /\ engines[pc].st = "open"
        THEN engines' = [engines EXCEPT ![pc].settingRemote = rsdp]
        ELSE engines' = engines
    /\ call' = Called("setRemoteDescription", HasEngine /\ pc # 0,
                      HasEngine /\ pc = 0, JNull)
    /\ UNCHANGED <<pc, dataChannel, isInitiator, channels, tasks>>

\* Values passed to sendMessage: "a" and {"type":"offer","sdp":"a"}.
SendValues == {JStr(<<97>>), Description(StrOffer, <<97>>)}

\* The guard of sendMessage:
\* this.dataChannel && this.dataChannel.readyState === 'open'.
ChannelReadyUnchecked == dataChannel # 0

ChannelReady ==
    dataChannel # 0 /\ channels[dataChannel].readyState = "open"

\* isReady(): whether this.dataChannel &&
\* this.dataChannel.readyState === 'open' is truthy.
IsReady == dataChannel # 0 /\ channels[dataChannel].readyState = "open"

\* sendMessage(data): one send of JSON.stringify(data) and true under the
\* guard, false otherwise.
SendMessage ==
    /\ CountCall
    /\ \E data \in SendValues :
        IF ChannelReady
        THEN /\ channels' = [channels EXCEPT ![dataChannel].writes =
                                Append(@, JsonStringify(data))]
             /\ call' = Called("sendMessage", TRUE, FALSE, data)
        ELSE /\ channels' = channels
             /\ call' = Called("sendMessage", FALSE, FALSE, data)
    /\ UNCHANGED <<pc, dataChannel, isInitiator, engines, tasks>>

\* RTCDataChannel.close() on the channels chs: nothing when the channel is
\* closing or closed, else the closing procedure starts.
ChannelCloseIn(chs, c) ==
    IF chs[c].readyState \in {"closing", "closed"} THEN chs
    ELSE [chs EXCEPT ![c].readyState = "closing"]

\* RTCPeerConnection.close() on engine e: nothing when it is closed, else
\* the engine is closed and its data channel is closed at once.
EngineCloseIn(st, e) ==
    IF st.engines[e].st = "closed" THEN st
    ELSE [st EXCEPT !.engines[e].st = "closed",
                    !.channels[e].readyState =
                        IF @ = "none" THEN "none" ELSE "closed"]

\* close() without its guards: close is called on this.dataChannel and
\* this.pc whatever they hold, and throws a TypeError on null.
CloseEffectUnguarded(st) ==
    IF st.dataChannel = 0 THEN [st EXCEPT !.threw = TRUE]
    ELSE LET s1 == [st EXCEPT !.channels =
                        ChannelCloseIn(st.channels, st.dataChannel)]
         IN  IF s1.pc = 0 THEN [s1 EXCEPT !.threw = TRUE]
             ELSE EngineCloseIn(s1, s1.pc)

\* close() as a function of the state [pc, dataChannel, engines, channels,
\* threw]: the channel is closed if there is one, then the engine if there
\* is one.
CloseEffect(st) ==
    LET s1 == IF st.dataChannel # 0
              THEN [st EXCEPT !.channels =
                        ChannelCloseIn(st.channels, st.dataChannel)]
              ELSE st
    IN  IF s1.pc # 0 THEN EngineCloseIn(s1, s1.pc) ELSE s1

\* The part of the state close() works on.
CloseView ==
    [pc |-> pc, dataChannel |-> dataChannel, engines |-> engines,
     channels |-> channels, threw |-> FALSE]

\* close().
Close ==
    LET s1 == CloseEffect(CloseView) IN
    /\ CountCall
    /\ engines' = s1.engines
    /\ channels' = s1.channels
    /\ call' = Called("close", FALSE, s1.threw, JNull)
    /\ UNCHANGED <<pc, dataChannel, isInitiator, tasks>>

\* ------------------------------------------------------------------------
\* The init calls after their first await, and waitForIceGathering
\* ------------------------------------------------------------------------

\* Whether the timer of waitForIceGathering never fires (no setTimeout).
GatherTimerDueNever(t) == FALSE

\* The timer of waitForIceGathering as if closing the engine cancelled it.
GatherTimerDueOpenOnly(t) == tasks[t].step = "gather" /\ tasks[t].elapsed = GatherTicks /\ engines[tasks[t].on].st = "open"

\* Whether the timer that init call t set in waitForIceGathering,
\* setTimeout(resolve, 5000), is due.
GatherTimerDue(t) ==
    tasks[t].step = "gather" /\ tasks[t].elapsed = GatherTicks

\* The time init call t has spent in the gathering wait, in milliseconds
\* times GatherTicks.
WaitedMsTimesTicks(t) == tasks[t].elapsed * GatherTimeoutMs

\* Init call t returns this.pc.localDescription, read from engines engs.
Returned(task, engs, via) ==
    [task EXCEPT !.step = "done", !.via = via, !.elapsed = 0,
                 !.result = LocalDescriptionIn(engs, pc)]

\* waitForIceGathering() called by init t with the engines as in engs: it
\* resolves at once when this.pc.iceGatheringState is 'complete'; otherwise
\* it installs onicegatheringstatechange on this.pc and sets the timer.
\* Yields the new [engines, task].
StartWait(t, engs, task) ==
    IF engs[pc].gathering = "complete"
    THEN [engines |-> engs, task |-> Returned(task, engs, "immediate")]
    ELSE [engines |-> [engs EXCEPT ![pc].handler = t],
          task |-> [task EXCEPT !.step = "gather", !.on = pc,
                                !.elapsed = 0]]

\* The init calls with the await of setLocalDescription left out:
\* the gathering wait follows createOffer and createAnswer at once.
NextAwaitUncommitted(step) ==
    CASE step = "createOffer" -> "wait"
      [] step = "setRemote" -> "createAnswer"
      [] step = "createAnswer" -> "wait"
      [] step = "setLocal" -> "wait"

\* What an init call does when the operation it awaits has resolved:
\*   const offer = await createOffer();   await setLocalDescription(offer)
\*   await setRemoteDescription(offerSdp); const answer = await createAnswer()
\*   const answer = await createAnswer(); await setLocalDescription(answer)
\*   await setLocalDescription(..);       await waitForIceGathering()
NextAwait(step) ==
    CASE step = "createOffer" -> "setLocal"
      [] step = "setRemote" -> "createAnswer"
      [] step = "createAnswer" -> "setLocal"
      [] step = "setLocal" -> "wait"

\* The engines once the operation of the init call task has resolved:
\* setRemoteDescription and setLocalDescription have committed their
\* description on the engine they were called on.
Settled(engs, task) ==
    IF task.step = "setRemote"
    THEN [engs EXCEPT ![task.on].remote = task.arg]
    ELSE IF task.step = "setLocal"
    THEN [engs EXCEPT ![task.on].local =
              IF task.role = "offerer" THEN "offer" ELSE "answer"]
    ELSE engs

\* The operation init call t awaits resolves, and the call runs on to its
\* next await.  Every step reads this.pc anew.  An operation on a closed
\* engine never settles; on an open engine it may resolve or be rejected
\* (EngineRejects), whatever the engine's state.
EngineResolves(t) ==
    LET task == tasks[t]
        e == task.on
        settled == Settled(engines, task)
        w == IF NextAwait(task.step) = "wait"
             THEN StartWait(t, settled, task)
             ELSE [engines |-> settled,
                   task |-> [task EXCEPT !.step = NextAwait(task.step),
                                         !.on = pc]]
    IN
    /\ task.step \in {"createOffer", "setRemote", "createAnswer", "setLocal"}
    /\ engines[e].st = "open"
    /\ engines' = w.engines
    /\ tasks' = [tasks EXCEPT ![t] = w.task]
    /\ call' = NoCall
    /\ callsMade' = callsMade
    /\ UNCHANGED <<pc, dataChannel, isInitiator, channels>>

\* The operation init call t awaits is rejected by the engine: the init
\* call rejects.
EngineRejects(t) ==
    /\ tasks[t].step \in {"createOffer", "setRemote", "createAnswer", "setLocal"}
    /\ engines[tasks[t].on].st = "open"
    /\ tasks' = [tasks EXCEPT ![t].step = "rejected"]
    /\ call' = NoCall
    /\ callsMade' = callsMade
    /\ UNCHANGED <<pc, dataChannel, isInitiator, engines, channels>>

\* Time passes: one tick for every pending gathering timer.  A timer that
\* is due fires before time passes further.
Tick ==
    /\ \E t \in EngineIds : tasks[t].step = "gather"
    /\ \A t \in EngineIds :
          tasks[t].step = "gather" => tasks[t].elapsed < GatherTicks
    /\ tasks' = [t \in EngineIds |->
                    IF tasks[t].step = "gather"
                    THEN [tasks[t] EXCEPT !.elapsed = @ + 1]
                    ELSE tasks[t]]
    /\ call' = NoCall
    /\ callsMade' = callsMade
    /\ UNCHANGED <<pc, dataChannel, isInitiator, engines, channels>>

\* The timer of init call t fires: the wait resolves and the call returns
\* this.pc.localDescription.
GatherTimeout(t) ==
    /\ GatherTimerDue(t)
    /\ tasks' = [tasks EXCEPT ![t] = Returned(tasks[t], engines, "timeout")]
    /\ call' = NoCall
    /\ callsMade' = callsMade
    /\ UNCHANGED <<pc, dataChannel, isInitiator, engines, channels>>

\* ------------------------------------------------------------------------
\* Engine events
\* ------------------------------------------------------------------------

\* Engine e changes its iceGatheringState (new -> gathering -> complete)
\* and fires icegatheringstatechange.  The handler installed by a wait
\* resolves that wait when this.pc.iceGatheringState is 'complete'.
GatheringStateChanges(e) ==
    /\ engines[e].st = "open"
    /\ engines[e].local # "none"
    /\ engines[e].gathering # "complete"
    /\ LET engs == [engines EXCEPT ![e].gathering =
                        IF @ = "new" THEN "gathering" ELSE "complete"]
           h == engines[e].handler
       IN  /\ engines' = engs
           /\ IF h # 0 /\ tasks[h].step = "gather"
                 /\ engs[pc].gathering = "complete"
              THEN tasks' = [tasks EXCEPT ![h] =
                                Returned(tasks[h], engs, "event")]
              ELSE tasks' = tasks
    /\ call' = NoCall
    /\ callsMade' = callsMade
    /\ UNCHANGED <<pc, dataChannel, isInitiator, channels>>

\* Engine e commits the remote description the coordinator's
\* setRemoteDescription passed to it.
RemoteDescriptionCommitted(e) ==
    /\ engines[e].st = "open"
    /\ engines[e].settingRemote # "none"
    /\ engines' = [engines EXCEPT ![e].remote = engines[e].settingRemote,
                                  ![e].settingRemote = "none"]
    /\ call' = NoCall
    /\ callsMade' = callsMade
    /\ UNCHANGED <<pc, dataChannel, isInitiator, channels, tasks>>

\* Engine e rejects that remote description.
RemoteDescriptionRejected(e) ==
    /\ engines[e].st = "open"
    /\ engines[e].settingRemote # "none"
    /\ engines' = [engines EXCEPT ![e].settingRemote = "none"]
    /\ call' = NoCall
    /\ callsMade' = callsMade
    /\ UNCHANGED <<pc, dataChannel, isInitiator, channels, tasks>>

\* Whether engine e has both descriptions, so that its connection can be
\* established.
Negotiated(e) ==
    /\ engines[e].st = "open"
    /\ engines[e].local # "none"
    /\ engines[e].remote # "none"

\* The channel the offerer created on engine e opens.
ChannelOpens(e) ==
    /\ Negotiated(e)
    /\ channels[e].readyState = "connecting"
    /\ channels' = [channels EXCEPT ![e].readyState = "open"]
    /\ call' = NoCall
    /\ callsMade' = callsMade
    /\ UNCHANGED <<pc, dataChannel, isInitiator, engines, tasks>>

\* Engine e, created by initAsAnswerer, fires datachannel: the handler
\* stores the channel in this.dataChannel.
IncomingChannel(e) ==
    /\ Negotiated(e)
    /\ tasks[e].role = "answerer"
    /\ channels[e].readyState = "none"
    /\ channels' = [channels EXCEPT ![e].readyState = "open"]
    /\ dataChannel' = e
    /\ call' = NoCall
    /\ callsMade' = callsMade
    /\ UNCHANGED <<pc, isInitiator, engines, tasks>>

\* A channel ends: the closing procedure completes, or the remote side
\* closes an open channel.
ChannelCloses(e) ==
    /\ channels[e].readyState \in {"closing", "open"}
    /\ channels' = [channels EXCEPT ![e].readyState = "closed"]
    /\ call' = NoCall
    /\ callsMade' = callsMade
    /\ UNCHANGED <<pc, dataChannel, isInitiator, engines, tasks>>

\* ------------------------------------------------------------------------
\* The coordinator: specification
\* ------------------------------------------------------------------------

\* The variables no step of the coordinator writes.
othersOfCoord == <<codecVars, fetchVars, exchVars, utilVars>>

CoordInit ==
    /\ CodecIdle
    /\ CoordIdle
    /\ RelayIdle
    /\ ExchIdle
    /\ ShapeIdle
    /\ SessionIdle
    /\ UrlIdle
    /\ LocalIdle
    /\ MsgIdle
    /\ TopicIdle
    /\ EventIdle

\* The coordinator's methods with the descriptions and the channels: the
\* steps that decide pc, dataChannel, the engines' descriptions and the
\* channels.  The gathering wait is left out: it writes only the init
\* calls' waiting state and iceGatheringState, which none of these steps
\* reads to decide those fields.
CoordNext ==
    \/ InitAsOfferer
    \/ InitAsAnswerer
    \/ AddIceCandidate
    \/ SetRemoteDescription
    \/ SendMessage
    \/ Close
    \/ \E t \in EngineIds :
        \/ EngineResolves(t)
        \/ EngineRejects(t)
        \/ RemoteDescriptionCommitted(t)
        \/ RemoteDescriptionRejected(t)
        \/ ChannelOpens(t)
        \/ IncomingChannel(t)
        \/ ChannelCloses(t)

SpecCoord ==
    CoordInit /\ [][CoordNext /\ UNCHANGED othersOfCoord]_vars

\* The init calls with the gathering wait and the clock.  The channel
\* events, sendMessage, addIceCandidate and setRemoteDescription are left
\* out: they write only the channels, dataChannel, the engines' remote
\* descriptions and candidate counts, which no step of an init call reads.
GatherNext ==
    \/ InitAsOfferer
    \/ InitAsAnswerer
    \/ Close
    \/ Tick
    \/ \E t \in EngineIds :
        \/ EngineResolves(t)
        \/ EngineRejects(t)
        \/ GatherTimeout(t)
        \/ GatheringStateChanges(t)

SpecGather ==
    CoordInit /\ [][GatherNext /\ UNCHANGED othersOfCoord]_vars

\* The event loop runs every timer that is due, and time passes.  Nothing
\* is assumed of the engine: it need never complete gathering.
FairSpecGather ==
    /\ SpecGather
    /\ WF_vars(Tick /\ UNCHANGED othersOfCoord)
    /\ \A t \in EngineIds :
          WF_vars(GatherTimeout(t) /\ UNCHANGED othersOfCoord)

\* ------------------------------------------------------------------------
\* The coordinator: properties
\* ------------------------------------------------------------------------

\* Whether this step is a call of the method op.
IsCallOf(op) == callsMade' = callsMade + 1 /\ call'.op = op

\* C4: the engine's addIceCandidate is invoked only on an engine whose
\* remote description is committed; addIceCandidate called before that
\* (no engine, or setRemoteDescription not yet completed) does not reach
\* the engine, and called after, it does.
C4_CandidateNeedsRemote ==
    [][ /\ \A e \in EngineIds :
              engines'[e].iceCalls # engines[e].iceCalls =>
                  /\ engines[e].remote # "none"
                  /\ IsCallOf("addIceCandidate")
        /\ IsCallOf("addIceCandidate") =>
              IF pc # 0 /\ engines[pc].remote # "none"
              THEN /\ call'.ret
                   /\ engines'[pc].iceCalls = engines[pc].iceCalls + 1
              ELSE /\ ~call'.ret
                   /\ engines' = engines
      ]_vars

\* C4 witness: on the offerer side, after setRemoteDescription committed a
\* remote description, addIceCandidate reached the engine.
C4_Witness ==
    /\ call.op = "addIceCandidate"
    /\ call.ret
    /\ isInitiator
    /\ pc # 0
    /\ engines[pc].remote # "none"
    /\ engines[pc].iceCalls = 1

\* C5: sendMessage returns false and writes nothing unless there is a
\* channel whose state is 'open'; then it returns true and performs one
\* write, of the JSON text of its argument.  Nothing else writes.
C5_SendOnlyWhenOpen ==
    [][ /\ IsCallOf("sendMessage") =>
              IF dataChannel # 0 /\ channels[dataChannel].readyState = "open"
              THEN /\ call'.ret
                   /\ channels' = [channels EXCEPT ![dataChannel].writes =
                                     Append(@, JsonStringify(call'.arg))]
              ELSE /\ ~call'.ret
                   /\ channels' = channels
        /\ \A c \in EngineIds :
              channels'[c].writes # channels[c].writes =>
                  IsCallOf("sendMessage")
      ]_vars

\* C5 witness: a message was written to an open channel.
C5_Witness ==
    /\ call.op = "sendMessage"
    /\ call.ret
    /\ dataChannel # 0
    /\ channels[dataChannel].readyState = "open"
    /\ channels[dataChannel].writes = <<JsonStringify(call.arg)>>

\* Whether in state st (a CloseView) the coordinator's engine is closed,
\* and so is the channel created on or accepted from that engine.  A
\* channel kept from an engine that an earlier init call created has had
\* its close() called: it is closing or closed.
ClosedIn(st) ==
    /\ st.pc # 0 =>
          /\ st.engines[st.pc].st = "closed"
          /\ st.channels[st.pc].readyState \in {"none", "closed"}
    /\ st.dataChannel # 0 =>
          st.channels[st.dataChannel].readyState \in {"closing", "closed"}

C7_GatherWaitResolves ==
    /\ \A t \in EngineIds :
          (tasks[t].step = "gather") ~> (tasks[t].step = "done")
    /\ [][ \A t \in EngineIds :
              (tasks[t].step = "gather" /\ tasks'[t].step # "gather") =>
                  /\ tasks'[t].step = "done"
                  /\ tasks'[t].result = LocalDescriptionIn(engines', pc')
                  /\ tasks'[t].via = "timeout" =>
                        WaitedMsTimesTicks(t) = GatherTimeoutMs * GatherTicks
                  /\ engines'[pc'].gathering # "complete" =>
                        tasks'[t].via = "timeout"
         ]_vars

\* C7 witness: an init call returned a local description at the timeout
\* while no engine had completed gathering.
C7_Witness ==
    \E t \in EngineIds :
        /\ tasks[t].step = "done"
        /\ tasks[t].via = "timeout"
        /\ tasks[t].result.type # "none"
        /\ \A e \in EngineIds : engines[e].gathering # "complete"

\* ------------------------------------------------------------------------
\* The relay client: reading a relay response
\* ------------------------------------------------------------------------

\* The value undefined, next to the JSON values.
JUndefined == [k |-> "undef", s |-> <<>>, items |-> <<>>]

\* Whether v is truthy.
Truthy(v) ==
    CASE v.k \in {"null", "undef"} -> FALSE
      [] v.k \in {"bool", "num"} -> v.s[1] # 0
      [] v.k = "str" -> v.s # <<>>
      [] OTHER -> TRUE

\* v[key] for a v that is neither null nor undefined, key being one of the
\* names the relay client reads: the property of an object (the last of
\* duplicate keys, as JSON.parse keeps it), undefined on everything else.
GetProp(v, key) ==
    IF v.k # "obj" THEN JUndefined
    ELSE LET at == {i \in 1..(Len(v.items) \div 2) : v.items[2 * i - 1].s = key}
         IN  IF at = {} THEN JUndefined
             ELSE v.items[2 * (CHOOSE i \in at : \A j \in at : j <= i)]

\* v[0] for a v that is neither null nor undefined.
Index0(v) ==
    CASE v.k = "arr" -> IF v.items = <<>> THEN JUndefined ELSE v.items[1]
      [] v.k = "str" -> IF v.s = <<>> THEN JUndefined ELSE JStr(<<v.s[1]>>)
      [] v.k = "obj" -> GetProp(v, <<48>>)
      [] OTHER -> JUndefined

NameWith == <<119, 105, 116, 104>>                         \* "with"
NameContent == <<99, 111, 110, 116, 101, 110, 116>>        \* "content"
NameSdp == <<115, 100, 112>>                               \* "sdp"
NameOffer == <<111, 102, 102, 101, 114>>                   \* "offer"

\* The lines from data.with to sdpEncoded: [threw, v].  Reading data.with
\* throws a TypeError when data is null.
ExtractSdp(data) ==
    IF data.k = "null" THEN [threw |-> TRUE, v |-> JUndefined]
    ELSE LET w == GetProp(data, NameWith)
             dweet == IF Truthy(w) /\ Truthy(Index0(w)) THEN Index0(w)
                      ELSE data
             c == IF Truthy(dweet) THEN GetProp(dweet, NameContent)
                  ELSE JUndefined
             content == IF Truthy(c) THEN c ELSE dweet
             sdpEncoded ==
                 IF ~Truthy(content) THEN content
                 ELSE IF Truthy(GetProp(content, NameSdp))
                      THEN GetProp(content, NameSdp)
                      ELSE GetProp(content, NameOffer)
         IN  [threw |-> FALSE, v |-> sdpEncoded]

\* v as the argument of decodeSdp.
AsArg(v) == IF v.k = "str" THEN StrArg(v.s) ELSE NonStrArg

\* How an attempt that received the response resp ends, [kind, v]:
\*   "http"         resp.ok is false
\*   "unparsable"   response.json() rejected
\*   "fault"        reading the parsed body threw
\*   "nodesc"       the body holds no description
\*   "undecodable"  decodeSdp returned null
\*   "ok"           decodeSdp returned the value v
Outcome(resp) ==
    IF ~resp.ok THEN [kind |-> "http", v |-> JNull]
    ELSE LET data == JsonParse(resp.body) IN
         IF data.threw THEN [kind |-> "unparsable", v |-> JNull]
         ELSE LET e == ExtractSdp(data.v) IN
              IF e.threw THEN [kind |-> "fault", v |-> JNull]
              ELSE IF ~Truthy(e.v) THEN [kind |-> "nodesc", v |-> JNull]
              ELSE LET r == decodeSdp(AsArg(e.v)) IN
                   [kind |-> IF r.v = JNull THEN "undecodable" ELSE "ok",
                    v |-> r.v]

\* ------------------------------------------------------------------------
\* The relay: what it can answer
\* ------------------------------------------------------------------------

\* The description a peer published.
ServedDescription == Description(StrOffer, <<97>>)

\* The body storeSdpOnDweet posts when Date.now() is now:
\* {type, sdp: encodeSdp(sdp), timestamp}.
PublishedBodyAt(type, d, now) ==
    JObj(<<KeyType, type,
           KeySdp, JStr(encodeSdp(d).s),
           JStr(<<116, 105, 109, 101, 115, 116, 97, 109, 112>>), JNum(now)>>)

PublishedBody(type, d) == PublishedBodyAt(type, d, 1)

\* The relay's envelope around a published body: {with: [{content: P}]}.
Envelope(P) ==
    JObj(<<JStr(NameWith), JArr(<<JObj(<<JStr(NameContent), P>>)>>)>>)

\* A published body whose sdp field does not decode.
GarbledBody == JObj(<<KeyType, StrOffer, KeySdp, JStr(<<33>>)>>)

\* The relay's answer for a topic nobody has published to:
\* {"this": "failed", "with": 404}.
NotFoundBody ==
    JObj(<<JStr(<<116, 104, 105, 115>>), JStr(<<102, 97, 105, 108, 101, 100>>),
           JStr(NameWith), JNum(404)>>)

\* The body texts a response can carry; the last two are the JSON text
\* null and a text that is not JSON.
RelayBodies ==
    {JsonStringify(Envelope(PublishedBody(StrOffer, ServedDescription))),
     JsonStringify(PublishedBody(StrOffer, ServedDescription)),
     JsonStringify(Envelope(GarbledBody)),
     JsonStringify(NotFoundBody),
     <<110, 117, 108, 108>>,
     <<60>>}

\* The responses a fetch can resolve with.  The body of a response that is
\* not ok is never read.
Responses ==
    {[ok |-> TRUE, body |-> b] : b \in RelayBodies}
        \cup {[ok |-> FALSE, body |-> JsonStringify(NotFoundBody)]}

\* ------------------------------------------------------------------------
\* The relay client: retrieveSdpFromDweet
\* ------------------------------------------------------------------------

\* attempt + 1 < maxRetries in place of attempt < maxRetries.
RetriesLeftShort(a, n) == a + 1 < n

\* if (attempt < maxRetries): another attempt follows this one.
RetriesLeft(a, n) == a < n

\* The loop making one attempt more than maxRetries.
LoopGoesOnOnceMore(a, n) == a <= n + 1

\* for (let attempt = 1; attempt <= maxRetries; attempt++): the test made
\* before attempt a.
LoopGoesOn(a, n) == a <= n

\* return v.
Return(v) ==
    /\ fetchPc' = "done"
    /\ fetchResult' = [returned |-> TRUE, v |-> v]
    /\ UNCHANGED <<attempt, requests, gaps>>

\* attempt++ and the loop test, after waiting for waited ms: the next
\* attempt calls fetch(url), or the loop ends and null is returned.
NextIteration(waited) ==
    /\ attempt' = attempt + 1
    /\ IF LoopGoesOn(attempt + 1, maxRetries)
       THEN /\ fetchPc' = "direct"
            /\ requests' = requests + 1
            /\ gaps' = Append(gaps, waited)
            /\ UNCHANGED fetchResult
       ELSE /\ fetchPc' = "done"
            /\ fetchResult' = [returned |-> TRUE, v |-> JNull]
            /\ UNCHANGED <<requests, gaps>>

\* The rest of the loop body once the attempt's outcome is known.
AttemptEnds(o) ==
    /\ kinds' = Append(kinds, o.kind)
    /\ CASE o.kind \in {"ok", "undecodable"} -> Return(o.v)
         [] o.kind = "nodesc" -> NextIteration(0)
         [] OTHER ->
              IF RetriesLeft(attempt, maxRetries)
              THEN /\ fetchPc' = "delay"
                   /\ UNCHANGED <<attempt, requests, gaps, fetchResult>>
              ELSE Return(JNull)

\* A call retrieveSdpFromDweet(sessionId, type, n) with n drawn from ns, up
\* to its first await.
RetrieveSdpFromDweetWith(ns) ==
    /\ fetchPc = "idle"
    /\ \E n \in ns :
        /\ maxRetries' = n
        /\ attempt' = 1
        /\ IF LoopGoesOn(1, n)
           THEN /\ fetchPc' = "direct"
                /\ requests' = 1
                /\ UNCHANGED fetchResult
           ELSE /\ fetchPc' = "done"
                /\ fetchResult' = [returned |-> TRUE, v |-> JNull]
                /\ UNCHANGED requests
    /\ UNCHANGED <<response, kinds, gaps>>

\* A call with maxRetries a count of attempts, 0..MaxRetries.
RetrieveSdpFromDweet == RetrieveSdpFromDweetWith(0..MaxRetries)

\* A call with any maxRetries, a negative one included.
RetrieveSdpFromDweetAny == RetrieveSdpFromDweetWith((0 - 1)..MaxRetries)

\* The ways a fetch awaited by the inner try block ends: it rejects, or it
\* resolves with a response that is ok or is not.
Settlement(resp) == IF resp.ok THEN "ok" ELSE "notok"

\* The proxy asked after a response that is not ok as well.
UsesProxyOnNotOk(at, settlement) ==
    at = "direct" /\ settlement \in {"rejected", "notok"}

\* try { response = await fetch(url) } catch { response = await
\* fetch(dweetProxyUrl(url)) }: the request made at `at' is followed by a
\* request through the proxy.
UsesProxy(at, settlement) == at = "direct" /\ settlement = "rejected"

\* The request through the proxy that follows a request of which UsesProxy
\* holds.
AsksProxyAgain ==
    /\ fetchPc' = "proxy"
    /\ requests' = requests + 1
    /\ UNCHANGED <<attempt, fetchResult, kinds, gaps>>

\* fetch(url) rejects: the inner catch calls fetch(dweetProxyUrl(url)).
DirectFetchFails ==
    /\ UsesProxy(fetchPc, "rejected")
    /\ fetchPc' = "proxy"
    /\ requests' = requests + 1
    /\ UNCHANGED <<maxRetries, attempt, response, fetchResult, kinds, gaps>>

\* The proxy fetch rejects too: the outer catch block runs.
ProxyFetchFails ==
    /\ fetchPc = "proxy"
    /\ AttemptEnds([kind |-> "network", v |-> JNull])
    /\ UNCHANGED <<maxRetries, response>>

\* A fetch resolves with the response resp.
FetchRespondsWith(resp) ==
    /\ fetchPc \in {"direct", "proxy"}
    /\ response' = resp
    /\ IF UsesProxy(fetchPc, Settlement(resp))
       THEN AsksProxyAgain
       ELSE AttemptEnds(Outcome(resp))
    /\ UNCHANGED maxRetries

\* A fetch resolves with a response.
FetchResponds == \E resp \in Responses : FetchRespondsWith(resp)

\* The retry timer fires.
DelayElapses ==
    /\ fetchPc = "delay"
    /\ NextIteration(RetryDelayMs)
    /\ UNCHANGED <<maxRetries, response, kinds>>

RelayInit ==
    /\ CodecIdle
    /\ CoordIdle
    /\ RelayIdle
    /\ ExchIdle
    /\ ShapeIdle
    /\ SessionIdle
    /\ UrlIdle
    /\ LocalIdle
    /\ MsgIdle
    /\ TopicIdle
    /\ EventIdle

RelayNext ==
    \/ RetrieveSdpFromDweet
    \/ DirectFetchFails
    \/ ProxyFetchFails
    \/ FetchResponds
    \/ DelayElapses

SpecRelay ==
    RelayInit /\
    [][RelayNext /\ UNCHANGED <<codecVars, coordVars, fetchArgs, exchVars,
                                utilVars>>]_vars

\* The relay client called with any maxRetries.
AnyRelayNext ==
    \/ RetrieveSdpFromDweetAny
    \/ DirectFetchFails
    \/ ProxyFetchFails
    \/ FetchResponds
    \/ DelayElapses

\* The request a call of retrieveSdpFromDweet waits on is rejected.
FetchRejects == DirectFetchFails \/ ProxyFetchFails

\* No request stays pending for ever, and the retry timer fires.  The
\* condition is put on the rejection of a request, which is enabled in
\* the very states in which a response is: it rules out the behaviours in
\* which a request never settles and leaves open how each request
\* settles.
FairSpecRelay ==
    /\ RelayInit
    /\ [][AnyRelayNext /\ UNCHANGED <<codecVars, coordVars, fetchArgs,
                                      exchVars, utilVars>>]_vars
    /\ WF_vars(FetchRejects /\ UNCHANGED <<codecVars, coordVars, fetchArgs,
                                            exchVars, utilVars>>)
    /\ WF_vars(DelayElapses /\ UNCHANGED <<codecVars, coordVars, fetchArgs,
                                            exchVars, utilVars>>)

\* ------------------------------------------------------------------------
\* The relay client: properties
\* ------------------------------------------------------------------------

\* The failures of an attempt that come from the relay being unreachable
\* or answering rubbish.
RelayFailures == {"network", "http", "unparsable"}

\* Attempts 1..n failed, each in one of the ways of RelayFailures.
FailedUpTo(n) == \A i \in 1..n : kinds[i] \in RelayFailures

\* C8: against a relay whose every attempt fails (network error on both
\* requests, HTTP non-success, unparsable body) retrieveSdpFromDweet
\* returns null after exactly maxRetries attempts; when after such
\* failures an attempt succeeds, it returns the decoded description after
\* exactly that many attempts; it never makes more than maxRetries.
C8_ExactlyMaxRetriesAttempts ==
    /\ Len(kinds) <= maxRetries
    /\ (fetchPc = "done" /\ FailedUpTo(Len(kinds))) =>
          /\ fetchResult.v = JNull
          /\ Len(kinds) = maxRetries
    /\ (fetchPc # "done" /\ FailedUpTo(Len(kinds))) =>
          ~fetchResult.returned
    /\ (Len(kinds) >= 1 /\ FailedUpTo(Len(kinds) - 1)
            /\ kinds[Len(kinds)] = "ok") =>
          /\ fetchPc = "done"
          /\ fetchResult.v = ServedDescription

\* C8 witness: with maxRetries = 3 the relay failed two attempts in
\* different ways and served the description on the third.
C8_Witness ==
    /\ fetchPc = "done"
    /\ maxRetries = 3
    /\ Len(kinds) = 3
    /\ kinds[1] # kinds[2]
    /\ FailedUpTo(2)
    /\ kinds[3] = "ok"
    /\ fetchResult.v = ServedDescription

\* C9: whenever retrieveSdpFromDweet returns null, exactly maxRetries
\* attempts have been made, also when an attempt obtained a description
\* that fails to decode.
C9_NullOnlyAfterMaxRetries ==
    (fetchPc = "done" /\ fetchResult.v = JNull) => Len(kinds) = maxRetries

\* C10: every two consecutive attempts are separated by the retry delay,
\* whatever the reason the earlier attempt failed.
C10_DelayBetweenAttempts ==
    \A i \in 1..Len(gaps) : gaps[i] = RetryDelayMs

\* ------------------------------------------------------------------------
\* URLs and topic names
\* ------------------------------------------------------------------------

\* 'https://dweet.cc/dweet/for/'
StoreEndpoint ==
    <<104, 116, 116, 112, 115, 58, 47, 47, 100, 119, 101, 101, 116, 46,
    99, 99, 47, 100, 119, 101, 101, 116, 47, 102, 111, 114, 47>>

\* 'https://dweet.cc/get/latest/dweet/for/'
FetchEndpoint ==
    <<104, 116, 116, 112, 115, 58, 47, 47, 100, 119, 101, 101, 116, 46,
    99, 99, 47, 103, 101, 116, 47, 108, 97, 116, 101, 115, 116, 47, 100,
    119, 101, 101, 116, 47, 102, 111, 114, 47>>

\* 'https://corsproxy.org/?'
ProxyPrefix ==
    <<104, 116, 116, 112, 115, 58, 47, 47, 99, 111, 114, 115, 112, 114,
    111, 120, 121, 46, 111, 114, 103, 47, 63>>

\* 'colormatch-'
StrColormatch ==
    <<99, 111, 108, 111, 114, 109, 97, 116, 99, 104, 45>>

\* 'ice-'
StrIce ==
    <<105, 99, 101, 45>>

\* 'offerer'
StrOfferer ==
    <<111, 102, 102, 101, 114, 101, 114>>

\* 'answerer'
StrAnswerer ==
    <<97, 110, 115, 119, 101, 114, 101, 114>>

\* 'candidate'
NameCandidate ==
    <<99, 97, 110, 100, 105, 100, 97, 116, 101>>

\* 'sdpMLineIndex'
NameSdpMLineIndex ==
    <<115, 100, 112, 77, 76, 105, 110, 101, 73, 110, 100, 101, 120>>

\* 'sdpMid'
NameSdpMid ==
    <<115, 100, 112, 77, 105, 100>>

\* 'timestamp'
NameTimestamp ==
    <<116, 105, 109, 101, 115, 116, 97, 109, 112>>

\* 'created'
NameCreated ==
    <<99, 114, 101, 97, 116, 101, 100>>

\* 'length'
NameLength ==
    <<108, 101, 110, 103, 116, 104>>


\* F(e), with e evaluated once before F is applied to its value.
Strict(F(_), e) == CHOOSE r \in {F(v) : v \in {e}} : TRUE

\* Characters encodeURIComponent leaves alone: A-Z a-z 0-9 - _ . ! ~ * ' ( )
IsUnreserved(c) ==
    \/ (c >= 65 /\ c <= 90) \/ (c >= 97 /\ c <= 122) \/ (c >= 48 /\ c <= 57)
    \/ c \in {45, 95, 46, 33, 126, 42, 39, 40, 41}

\* The code unit of the hexadecimal digit d, upper case.
HexUpper(d) == IF d < 10 THEN 48 + d ELSE 55 + d

\* %XX for the byte b.
PercentByte(b) == <<37, HexUpper(b \div 16), HexUpper(b % 16)>>

\* The UTF-8 bytes of the code point cp.
Utf8(cp) ==
    IF cp < 128 THEN <<cp>>
    ELSE IF cp < 2048 THEN <<192 + (cp \div 64), 128 + (cp % 64)>>
    ELSE IF cp < 65536
         THEN <<224 + (cp \div 4096), 128 + ((cp \div 64) % 64),
                128 + (cp % 64)>>
    ELSE <<240 + (cp \div 262144), 128 + ((cp \div 4096) % 64),
           128 + ((cp \div 64) % 64), 128 + (cp % 64)>>

IsHighSurrogate(c) == c >= 55296 /\ c <= 56319
IsLowSurrogate(c) == c >= 56320 /\ c <= 57343

RECURSIVE Join(_)
\* The concatenation of a sequence of sequences, by halves.
Join(ss) ==
    IF Len(ss) = 0 THEN <<>>
    ELSE IF Len(ss) = 1 THEN ss[1]
    ELSE LET h == Len(ss) \div 2
         IN  Join(SubSeq(ss, 1, h)) \o Join(SubSeq(ss, h + 1, Len(ss)))

\* Whether cs[i] is a surrogate that is not part of a pair.
LoneSurrogate(cs, i) ==
    \/ IsHighSurrogate(cs[i]) /\ ~(i < Len(cs) /\ IsLowSurrogate(cs[i + 1]))
    \/ IsLowSurrogate(cs[i]) /\ ~(i > 1 /\ IsHighSurrogate(cs[i - 1]))

\* What encodeURIComponent writes for cs[i], no surrogate of cs being
\* alone: the character itself, or the escaped UTF-8 bytes of its code
\* point; the low half of a pair is written with its high half.
EncodedUnit(cs, i) ==
    LET c == cs[i]
    IN  IF IsUnreserved(c) THEN <<c>>
        ELSE IF IsLowSurrogate(c) THEN <<>>
        ELSE IF IsHighSurrogate(c)
             THEN Concat(MapSeq(PercentByte,
                      Utf8(65536 + (c - 55296) * 1024 + (cs[i + 1] - 56320))))
        ELSE Concat(MapSeq(PercentByte, Utf8(c)))

\* encodeURIComponent of the text cs: [threw, s].  A surrogate that is not
\* part of a pair throws a URIError.
EncodeUri(cs) ==
    IF \E i \in 1..Len(cs) : LoneSurrogate(cs, i)
    THEN [threw |-> TRUE, s |-> <<>>]
    ELSE [threw |-> FALSE,
          s |-> Join([i \in 1..Len(cs) |-> EncodedUnit(cs, i)])]

\* encodeURIComponent(cs): [threw, s].
encodeURIComponent(cs) == Strict(EncodeUri, cs)

\* 'https://corsproxy.org/?' + encodeURIComponent(url), for a url without
\* surrogates.
dweetProxyUrl(url) == ProxyPrefix \o encodeURIComponent(url).s

\* Whether an escape %XX starts at position i of cs.  The two characters
\* after the "%" are hexadecimal digits, so no two escapes overlap.
EscapeAt(cs, i) ==
    /\ i >= 1
    /\ i + 2 <= Len(cs)
    /\ cs[i] = 37
    /\ IsHex(cs[i + 1])
    /\ IsHex(cs[i + 2])

\* What position i of cs decodes to: the byte of an escape that starts
\* there, nothing inside an escape, the character itself elsewhere.
DecodedUnit(cs, i) ==
    IF EscapeAt(cs, i) THEN <<16 * HexVal(cs[i + 1]) + HexVal(cs[i + 2])>>
    ELSE IF EscapeAt(cs, i - 1) \/ EscapeAt(cs, i - 2) THEN <<>>
    ELSE <<cs[i]>>

\* cs with every %XX replaced by the byte XX (the texts decoded here are
\* ASCII, where a byte is a character).
DecodeEscapes(cs) == Join([i \in 1..Len(cs) |-> DecodedUnit(cs, i)])

PercentDecode(cs) == Strict(DecodeEscapes, cs)

\* Whether the text cs starts with the text pre.
StartsWith(cs, pre) ==
    Len(cs) >= Len(pre) /\ SubSeq(cs, 1, Len(pre)) = pre

\* The URL a request arrives at: the proxy fetches the URL in its query,
\* any other URL is fetched as it is.
ArrivesAt(url) ==
    IF StartsWith(url, ProxyPrefix)
    THEN PercentDecode(SubSeq(url, Len(ProxyPrefix) + 1, Len(url)))
    ELSE url

\* The topic the relay reads from a URL under the endpoint: the path
\* segment after the endpoint, up to the next "/", "?" or "#",
\* percent-decoded.  <<>> when the URL is not under the endpoint.
TopicOfUrl(url, endpoint) ==
    IF ~StartsWith(url, endpoint) THEN <<>>
    ELSE LET rest == SubSeq(url, Len(endpoint) + 1, Len(url))
             stops == {i \in 1..Len(rest) : rest[i] \in {47, 63, 35}}
             n == IF stops = {} THEN Len(rest)
                  ELSE (CHOOSE i \in stops : \A j \in stops : i <= j) - 1
         IN  PercentDecode(SubSeq(rest, 1, n))

\* The name without the session in it.
StoreThingNameUnscoped(sessionId, type) ==
    StrColormatch \o <<45>> \o type

\* storeSdpOnDweet: `colormatch-${sessionId}-${type}`.
StoreThingName(sessionId, type) ==
    StrColormatch \o sessionId \o <<45>> \o type

\* The name of the offer whatever the type asked for.
FetchThingNameOfOffer(sessionId, type) ==
    StrColormatch \o encodeURIComponent(sessionId).s \o <<45>> \o StrOffer.s

\* retrieveSdpFromDweet:
\* `colormatch-${encodeURIComponent(sessionId)}-${type}`.
FetchThingName(sessionId, type) ==
    StrColormatch \o encodeURIComponent(sessionId).s \o <<45>> \o type

\* storeIceCandidateOnDweet:
\* `colormatch-${sessionId}-ice-${isOfferer ? 'offerer' : 'answerer'}`.
IceStoreThingName(sessionId, isOfferer) ==
    StrColormatch \o sessionId \o <<45>> \o StrIce
        \o (IF isOfferer THEN StrOfferer ELSE StrAnswerer)

\* The same with the roles not swapped: the caller reads its own topic.
IceFetchThingNameOwn(sessionId, isOfferer) ==
    StrColormatch \o sessionId \o <<45>> \o StrIce
        \o (IF isOfferer THEN StrOfferer ELSE StrAnswerer)

\* retrieveIceCandidatesFromDweet:
\* `colormatch-${sessionId}-ice-${isOfferer ? 'answerer' : 'offerer'}`.
IceFetchThingName(sessionId, isOfferer) ==
    StrColormatch \o sessionId \o <<45>> \o StrIce
        \o (IF isOfferer THEN StrAnswerer ELSE StrOfferer)

\* ------------------------------------------------------------------------
\* The relay (dweet.cc)
\* ------------------------------------------------------------------------

\* The store with topic set to content.
StoreWith(store, topic, content) ==
    {e \in store : e.topic # topic}
        \cup {[topic |-> topic, content |-> content]}

\* Whether the store holds the topic.
HoldsTopic(store, topic) == \E e \in store : e.topic = topic

\* The latest content of a topic the store holds.
LatestOf(store, topic) == (CHOOSE e \in store : e.topic = topic).content

\* The topic the relay reads from the URL a request arrives at.
ArrivingTopic(url, endpoint) ==
    Strict(LAMBDA u : TopicOfUrl(u, endpoint), ArrivesAt(url))

\* The relay receives the request req: a POST under the store endpoint
\* with a JSON body replaces what the topic held.
RelayReceives(store, req) ==
    LET Put(topic) ==
            LET Set(content) ==
                    IF req.method = "POST" /\ topic # <<>> /\ ~content.threw
                    THEN StoreWith(store, topic, content.v)
                    ELSE store
            IN  Strict(Set, JsonParse(req.body))
    IN  Strict(Put, ArrivingTopic(req.url, StoreEndpoint))

\* What the relay answers to a GET of url: the envelope around the latest
\* content of the topic, or its answer for a topic it does not hold.
RelayAnswers(store, url) ==
    LET Get(topic) ==
            IF HoldsTopic(store, topic)
            THEN [ok |-> TRUE,
                  body |-> JsonStringify(Envelope(LatestOf(store, topic)))]
            ELSE [ok |-> TRUE, body |-> JsonStringify(NotFoundBody)]
    IN  Strict(Get, ArrivingTopic(url, FetchEndpoint))

\* ------------------------------------------------------------------------
\* Publishing: storeSdpOnDweet and storeIceCandidateOnDweet
\* ------------------------------------------------------------------------

\* Session identifiers: "A1" and "A/1".
SessionIds == {<<65, 49>>, <<65, 47, 49>>}

\* The types a description is published under.
SdpTypes == {StrOffer.s, StrAnswer.s}

\* Descriptions to publish; the last holds a character above U+00FF.
PublishDescriptions ==
    {Description(StrOffer, <<97>>), Description(StrAnswer, <<98>>),
     Description(StrOffer, <<8364>>)}

\* An RTCIceCandidate with the candidate line cs and the media id mid.
IceCandidate(cs, mid) ==
    JObj(<<JStr(NameCandidate), JStr(cs), JStr(NameSdpMLineIndex), JNum(0),
           JStr(NameSdpMid), JStr(mid)>>)

\* Candidates to publish: two candidate objects, a bare candidate line,
\* and null.
Candidates ==
    {IceCandidate(<<99, 49>>, <<48>>), IceCandidate(<<99, 50>>, <<>>),
     JStr(<<99, 51>>), JNull}

\* Date.now() at a publish call: later calls see later times.
DateNow == pubCount + 1

\* candidateObj of storeIceCandidateOnDweet, for a candidate that is not
\* null.
CandidateObj(candidate) ==
    LET c == GetProp(candidate, NameCandidate)
        i == GetProp(candidate, NameSdpMLineIndex)
        m == GetProp(candidate, NameSdpMid)
    IN  JObj(<<JStr(NameCandidate), IF Truthy(c) THEN c ELSE candidate,
               JStr(NameSdpMLineIndex), IF i # JUndefined THEN i ELSE JNull,
               JStr(NameSdpMid), IF Truthy(m) THEN m ELSE JNull>>)

\* The body storeIceCandidateOnDweet posts: {candidate, timestamp}.
IceBodyAt(candidate, now) ==
    JObj(<<JStr(NameCandidate), CandidateObj(candidate),
           JStr(NameTimestamp), JNum(now)>>)

\* fetch(url, opts) with opts = {method: 'POST', headers, body}.
PostRequest(url, body) == [url |-> url, method |-> "POST", body |-> body]

\* The proxy request made without opts: a GET with no body.
ProxyRequestBare(req) ==
    [url |-> dweetProxyUrl(req.url), method |-> "GET", body |-> <<>>]

\* fetch(dweetProxyUrl(dweetUrl), opts): the same opts, the wrapped URL.
ProxyRequest(req) == [req EXCEPT !.url = dweetProxyUrl(req.url)]

\* storeSdpOnDweet returns true whatever the response.
SdpStoredUnchecked(ok) == TRUE

\* storeSdpOnDweet: if (!response.ok) throw ...; return true; the catch
\* block returns false.
SdpStored(ok) == ok

\* storeIceCandidateOnDweet: return response.ok.
IceStored(ok) == ok

\* A call storeSdpOnDweet(sessionId, sdp, type), up to its first await.
\* encodeSdp(sdp) runs before the try block: when it throws, the call
\* rejects.
StoreSdpOnDweet(sid, d, type) ==
    LET dweetUrl == StoreEndpoint \o StoreThingName(sid, type)
        body == JsonStringify(PublishedBodyAt(JStr(type), d, DateNow))
    IN  /\ pubPc \in {"idle", "done"}
        /\ pubCount < MaxPublishes
        /\ pubOp' = [fn |-> "storeSdp", sessionId |-> sid, type |-> type,
                     isOfferer |-> FALSE, payload |-> d, now |-> DateNow]
        /\ IF encodeSdp(d).threw
           THEN /\ pubPc' = "done"
                /\ pubRequests' = <<>>
                /\ pubResult' = [NoOutcome EXCEPT !.threw = TRUE]
           ELSE /\ pubPc' = "direct"
                /\ pubRequests' = <<PostRequest(dweetUrl, body)>>
                /\ pubResult' = NoOutcome
        /\ pubCount' = pubCount + 1

\* A call storeIceCandidateOnDweet(sessionId, candidate, isOfferer), up to
\* its first await.  Reading candidate.candidate of null throws inside the
\* try block: the call returns false.
StoreIceCandidateOnDweet(sid, candidate, isOfferer) ==
    LET dweetUrl == StoreEndpoint \o IceStoreThingName(sid, isOfferer)
    IN  /\ pubPc \in {"idle", "done"}
        /\ pubCount < MaxPublishes
        /\ pubOp' = [fn |-> "storeIce", sessionId |-> sid, type |-> <<>>,
                     isOfferer |-> isOfferer, payload |-> candidate,
                     now |-> DateNow]
        /\ IF candidate = JNull
           THEN /\ pubPc' = "done"
                /\ pubRequests' = <<>>
                /\ pubResult' = [NoOutcome EXCEPT !.returned = TRUE,
                                                  !.v = JBool(FALSE)]
           ELSE /\ pubPc' = "direct"
                /\ pubRequests' =
                      <<PostRequest(dweetUrl,
                          JsonStringify(IceBodyAt(candidate, DateNow)))>>
                /\ pubResult' = NoOutcome
        /\ pubCount' = pubCount + 1

\* The direct fetch rejects (a network-level failure): the inner catch
\* makes the proxy request.
PublishDirectFails ==
    /\ pubPc = "direct"
    /\ pubPc' = "proxy"
    /\ pubRequests' = Append(pubRequests, ProxyRequest(pubRequests[1]))
    /\ UNCHANGED <<pubOp, pubResult, pubCount>>

\* The proxy fetch rejects too: the outer catch returns false.
PublishProxyFails ==
    /\ pubPc = "proxy"
    /\ pubPc' = "done"
    /\ pubResult' = [returned |-> TRUE, threw |-> FALSE, v |-> JBool(FALSE),
                     ended |-> "network"]
    /\ UNCHANGED <<pubOp, pubRequests, pubCount>>

\* What the publish function fn returns for a response with response.ok
\* = ok.
Stored(fn, ok) == IF fn = "storeSdp" THEN SdpStored(ok) ELSE IceStored(ok)

\* The fetch awaited resolves with an HTTP response.
PublishResponds(ok) ==
    /\ pubPc \in {"direct", "proxy"}
    /\ pubResult' =
          [returned |-> TRUE, threw |-> FALSE,
           v |-> JBool(Stored(pubOp.fn, ok)),
           ended |-> IF ok THEN "ok" ELSE "notok"]
    /\ pubPc' = "done"
    /\ UNCHANGED <<pubOp, pubRequests, pubCount>>

PublishSdp ==
    \E sid \in SessionIds, d \in PublishDescriptions, type \in SdpTypes :
        StoreSdpOnDweet(sid, d, type)

PublishIce ==
    \E sid \in SessionIds, candidate \in Candidates, isOfferer \in BOOLEAN :
        StoreIceCandidateOnDweet(sid, candidate, isOfferer)

PublishAnswered == \E ok \in BOOLEAN : PublishResponds(ok)

PublishInit ==
    /\ CodecIdle
    /\ CoordIdle
    /\ RelayIdle
    /\ ExchIdle
    /\ ShapeIdle
    /\ SessionIdle
    /\ UrlIdle
    /\ LocalIdle
    /\ MsgIdle
    /\ TopicIdle
    /\ EventIdle

PublishNext ==
    \/ PublishSdp
    \/ PublishIce
    \/ PublishDirectFails
    \/ PublishProxyFails
    \/ PublishAnswered

SpecPublish ==
    PublishInit /\
    [][PublishNext /\ UNCHANGED <<codecVars, coordVars, fetchVars, pubLog,
                                  relayStore, iceVars, utilVars>>]_vars

\* ------------------------------------------------------------------------
\* Publishing: properties
\* ------------------------------------------------------------------------

\* C11: a publish whose direct request fails at the network level makes
\* exactly one further request, to the proxy URL wrapping the same target
\* URL, with the same method and body; a publish never makes more than two
\* requests, and makes only the direct one when that gets an HTTP response.
C11_OneProxyRetry ==
    /\ [](/\ Len(pubRequests) <= 2
          /\ pubPc = "direct" => Len(pubRequests) = 1
          /\ pubPc = "proxy" => Len(pubRequests) = 2
          /\ Len(pubRequests) = 2 =>
                /\ StartsWith(pubRequests[2].url, ProxyPrefix)
                /\ ArrivesAt(pubRequests[2].url) = pubRequests[1].url
                /\ pubRequests[2].method = pubRequests[1].method
                /\ pubRequests[2].body = pubRequests[1].body)
    /\ [][/\ (pubPc = "direct" /\ pubPc' = "done") =>
                pubRequests' = pubRequests
          /\ (pubPc = "direct" /\ pubPc' = "proxy") =>
                Len(pubRequests') = Len(pubRequests) + 1
          /\ (pubPc = "proxy" /\ pubPc' # "proxy") =>
                (pubPc' = "done" /\ pubRequests' = pubRequests)
         ]_vars

\* C11 witness: storeSdpOnDweet made its direct request to a URL with a
\* character the proxy URL must escape inside the topic, that request
\* failed, and the proxy request was answered.
C11_Witness ==
    /\ pubOp.fn = "storeSdp"
    /\ pubOp.sessionId = <<65, 47, 49>>
    /\ pubPc = "done"
    /\ Len(pubRequests) = 2
    /\ pubResult.ended = "ok"

\* C12: a publish that receives an HTTP non-success response, from the
\* direct or from the proxy request, returns false without another
\* request; it returns true only when its last request received an HTTP
\* success response.
C12_NonSuccessIsFalse ==
    /\ []((pubPc = "done" /\ pubResult.ended = "notok") =>
                (pubResult.returned /\ pubResult.v = JBool(FALSE)))
    /\ []((pubResult.returned /\ pubResult.v = JBool(TRUE)) =>
                pubResult.ended = "ok")
    /\ [][pubResult'.ended = "notok" =>
                (pubPc' = "done" /\ pubRequests' = pubRequests)]_vars

\* C12 witness: storeSdpOnDweet got an HTTP non-success response from the
\* proxy and returned false.
C12_Witness ==
    /\ pubOp.fn = "storeSdp"
    /\ pubPc = "done"
    /\ Len(pubRequests) = 2
    /\ pubResult.ended = "notok"
    /\ pubResult.v = JBool(FALSE)

\* C13: no publish raises to its caller: a publish that has ended has
\* returned a boolean, whatever the requests did.
C13_NoRelayOperationRaises ==
    /\ ~pubResult.threw
    /\ pubPc = "done" =>
            (pubResult.returned /\ pubResult.v \in {JBool(TRUE), JBool(FALSE)})

\* ------------------------------------------------------------------------
\* The relay client: retrieveIceCandidatesFromDweet
\* ------------------------------------------------------------------------

\* v.length for a v that is neither null nor undefined.
LengthOf(v) ==
    CASE v.k = "arr" -> JNum(Len(v.items))
      [] v.k = "str" -> JNum(Len(v.s))
      [] v.k = "obj" -> GetProp(v, NameLength)
      [] OTHER -> JUndefined

\* v > 0 for a number, a boolean, null or undefined.
Positive(v) == v.k \in {"num", "bool"} /\ v.s[1] > 0

\* The lines from data.with to the return: [threw, v].  Reading a property
\* of null or undefined throws a TypeError.
ExtractCandidate(data) ==
    IF data.k = "null" THEN [threw |-> TRUE, v |-> JNull]
    ELSE LET w == GetProp(data, NameWith) IN
         IF ~(Truthy(w) /\ Positive(LengthOf(w)))
         THEN [threw |-> FALSE, v |-> JNull]
         ELSE LET dweet == Index0(w) IN
              IF dweet.k \in {"null", "undef"}
              THEN [threw |-> TRUE, v |-> JNull]
              ELSE LET content == GetProp(dweet, NameContent) IN
                   IF ~(Truthy(content)
                            /\ Truthy(GetProp(content, NameCandidate)))
                   THEN [threw |-> FALSE, v |-> JNull]
                   ELSE LET t == GetProp(content, NameTimestamp) IN
                        [threw |-> FALSE,
                         v |-> JObj(<<JStr(NameCandidate),
                                      GetProp(content, NameCandidate),
                                      JStr(NameTimestamp),
                                      IF Truthy(t) THEN t
                                      ELSE GetProp(dweet, NameCreated)>>)]

\* What retrieveIceCandidatesFromDweet returns for the response resp; the
\* catch block turns a rejected response.json() and a TypeError into null.
IceOutcome(resp) ==
    IF ~resp.ok
    THEN [returned |-> TRUE, threw |-> FALSE, v |-> JNull, ended |-> "notok"]
    ELSE LET Read(data) ==
                 LET Give(e) ==
                         [returned |-> TRUE, threw |-> FALSE,
                          v |-> IF data.threw \/ e.threw THEN JNull
                                ELSE e.v,
                          ended |-> "ok"]
                 IN  Strict(Give, ExtractCandidate(data.v))
         IN  Strict(Read, JsonParse(resp.body))

\* The URL retrieveIceCandidatesFromDweet fetches.
IceFetchUrl(sid, isOfferer) ==
    FetchEndpoint \o IceFetchThingName(sid, isOfferer)

\* A call retrieveIceCandidatesFromDweet(sessionId, isOfferer), up to its
\* first await.
RetrieveIceCandidatesFromDweet(sid, isOfferer) ==
    /\ icePc \in {"idle", "done"}
    /\ iceArgs' = [sessionId |-> sid, isOfferer |-> isOfferer]
    /\ icePc' = "direct"
    /\ iceResponse' = NoResponse
    /\ iceResult' = NoOutcome

\* fetch(url) rejects: the inner catch calls fetch(dweetProxyUrl(url)).
IceDirectFetchFails ==
    /\ UsesProxy(icePc, "rejected")
    /\ icePc' = "proxy"
    /\ UNCHANGED <<iceArgs, iceResponse, iceResult>>

\* The proxy fetch rejects too: the catch block returns null.
IceProxyFetchFails ==
    /\ icePc = "proxy"
    /\ icePc' = "done"
    /\ iceResult' = [returned |-> TRUE, threw |-> FALSE, v |-> JNull,
                     ended |-> "network"]
    /\ UNCHANGED <<iceArgs, iceResponse>>

\* The fetch awaited resolves with the response resp.
IceFetchResponds(resp) ==
    /\ icePc \in {"direct", "proxy"}
    /\ iceResponse' = resp
    /\ IF UsesProxy(icePc, Settlement(resp))
       THEN /\ icePc' = "proxy"
            /\ UNCHANGED iceResult
       ELSE /\ icePc' = "done"
            /\ iceResult' = IceOutcome(resp)
    /\ UNCHANGED iceArgs

\* ------------------------------------------------------------------------
\* Candidate exchange through the relay
\* ------------------------------------------------------------------------

\* The candidates the two peers exchange.
ExchangedCandidates ==
    {IceCandidate(<<99, 49>>, <<48>>), IceCandidate(<<99, 50>>, <<>>)}

\* A peer publishes a candidate.
ExchangePublishIce ==
    /\ \E sid \in SessionIds, candidate \in ExchangedCandidates,
          isOfferer \in BOOLEAN :
            StoreIceCandidateOnDweet(sid, candidate, isOfferer)
    /\ UNCHANGED <<pubLog, relayStore>>

\* The direct request of the publish does not get through.
ExchangePublishDirectFails ==
    /\ PublishDirectFails
    /\ UNCHANGED <<pubLog, relayStore>>

\* The relay takes the request of the publish and answers with success.
ExchangeRelayStores ==
    /\ PublishResponds(TRUE)
    /\ relayStore' = RelayReceives(relayStore, pubRequests[Len(pubRequests)])
    /\ pubLog' = IF Stored(pubOp.fn, TRUE) THEN Append(pubLog, pubOp)
                 ELSE pubLog

\* A peer asks for the candidate of its counterpart.
ExchangeFetchIce ==
    \E sid \in SessionIds, isOfferer \in BOOLEAN :
        RetrieveIceCandidatesFromDweet(sid, isOfferer)

\* The URL of the request a candidate fetch is waiting on.
IceRequestUrl ==
    LET url == IceFetchUrl(iceArgs.sessionId, iceArgs.isOfferer)
    IN  IF icePc = "proxy" THEN dweetProxyUrl(url) ELSE url

\* The relay answers the request of the fetch from what it holds.
ExchangeRelayServes ==
    /\ icePc \in {"direct", "proxy"}
    /\ \E url \in {IceRequestUrl} :
        \E resp \in {RelayAnswers(relayStore, url)} :
            IceFetchResponds(resp)

ExchangeIceInit ==
    /\ CodecIdle
    /\ CoordIdle
    /\ RelayIdle
    /\ ExchIdle
    /\ ShapeIdle
    /\ SessionIdle
    /\ UrlIdle
    /\ LocalIdle
    /\ MsgIdle
    /\ TopicIdle
    /\ EventIdle

ExchangeIceNext ==
    \/ (ExchangePublishIce /\ UNCHANGED iceVars)
    \/ (ExchangePublishDirectFails /\ UNCHANGED iceVars)
    \/ (ExchangeRelayStores /\ UNCHANGED iceVars)
    \/ (ExchangeFetchIce /\ UNCHANGED <<pubVars, pubLog, relayStore>>)
    \/ (IceDirectFetchFails /\ UNCHANGED <<pubVars, pubLog, relayStore>>)
    \/ (IceProxyFetchFails /\ UNCHANGED <<pubVars, pubLog, relayStore>>)
    \/ (ExchangeRelayServes /\ UNCHANGED <<pubVars, pubLog, relayStore>>)

SpecExchangeIce ==
    ExchangeIceInit /\
    [][ExchangeIceNext /\ UNCHANGED <<codecVars, coordVars, fetchVars,
                                      utilVars>>]_vars

\* The last entry of a sequence that is not empty.
Last(q) == q[Len(q)]

\* The candidate of the value retrieveIceCandidatesFromDweet returned.
ReturnedCandidate == GetProp(iceResult.v, NameCandidate)

\* C14: when the last candidate successfully published is C2, published by
\* one side of a session, a fetch the counterpart in that session gets
\* answered by the relay returns C2, and so never a candidate published
\* before C2.
C14_LastWriteWins ==
    [][(/\ icePc # "done"
        /\ icePc' = "done"
        /\ iceResult'.ended = "ok"
        /\ pubLog # <<>>
        /\ Last(pubLog).fn = "storeIce"
        /\ Last(pubLog).sessionId = iceArgs.sessionId
        /\ Last(pubLog).isOfferer # iceArgs.isOfferer)
       => GetProp(iceResult'.v, NameCandidate)
              = CandidateObj(Last(pubLog).payload)]_vars

\* C14 witness: the offerer of session "A1" published two different
\* candidates one after the other, both with success, and the answerer's
\* fetch made after them returned the second.
C14_Witness ==
    /\ Len(pubLog) >= 2
    /\ pubLog[Len(pubLog) - 1].sessionId = <<65, 49>>
    /\ Last(pubLog).sessionId = <<65, 49>>
    /\ pubLog[Len(pubLog) - 1].isOfferer
    /\ Last(pubLog).isOfferer
    /\ pubLog[Len(pubLog) - 1].payload # Last(pubLog).payload
    /\ icePc = "done"
    /\ iceArgs = [sessionId |-> <<65, 49>>, isOfferer |-> FALSE]
    /\ iceResult.ended = "ok"
    /\ ReturnedCandidate = CandidateObj(Last(pubLog).payload)

\* ------------------------------------------------------------------------
\* Description exchange through the relay
\* ------------------------------------------------------------------------

\* The descriptions the two peers exchange.
ExchangedDescriptions ==
    {Description(StrOffer, <<97>>), Description(StrAnswer, <<98>>)}

\* A peer publishes a description.
ExchangePublishSdp ==
    /\ \E sid \in SessionIds, d \in ExchangedDescriptions, type \in SdpTypes :
            StoreSdpOnDweet(sid, d, type)
    /\ UNCHANGED <<pubLog, relayStore>>

\* A peer asks for a description: retrieveSdpFromDweet(sid, type, n).
ExchangeFetchSdp ==
    /\ RetrieveSdpFromDweet
    /\ \E sid \in SessionIds, type \in SdpTypes :
            fetchArgs' = [sessionId |-> sid, type |-> type]

\* The URL of the request a description fetch is waiting on.
SdpRequestUrl ==
    LET url == FetchEndpoint
                   \o FetchThingName(fetchArgs.sessionId, fetchArgs.type)
    IN  IF fetchPc = "proxy" THEN dweetProxyUrl(url) ELSE url

\* The relay answers the request of the fetch from what it holds.
ExchangeRelayServesSdp ==
    /\ fetchPc \in {"direct", "proxy"}
    /\ \E url \in {SdpRequestUrl} :
        \E resp \in {RelayAnswers(relayStore, url)} :
            FetchRespondsWith(resp)
    /\ UNCHANGED fetchArgs

ExchangeSdpInit ==
    /\ CodecIdle
    /\ CoordIdle
    /\ RelayIdle
    /\ ExchIdle
    /\ ShapeIdle
    /\ SessionIdle
    /\ UrlIdle
    /\ LocalIdle
    /\ MsgIdle
    /\ TopicIdle
    /\ EventIdle

ExchangeSdpNext ==
    \/ (ExchangePublishSdp /\ UNCHANGED fetchVars)
    \/ (ExchangePublishDirectFails /\ UNCHANGED fetchVars)
    \/ (ExchangeRelayStores /\ UNCHANGED fetchVars)
    \/ (ExchangeFetchSdp /\ UNCHANGED <<pubVars, pubLog, relayStore>>)
    \/ (DirectFetchFails /\ UNCHANGED <<fetchArgs, pubVars, pubLog,
                                        relayStore>>)
    \/ (ExchangeRelayServesSdp /\ UNCHANGED <<pubVars, pubLog, relayStore>>)

SpecExchangeSdp ==
    ExchangeSdpInit /\
    [][ExchangeSdpNext /\ UNCHANGED <<codecVars, coordVars, iceVars,
                                      utilVars>>]_vars

\* C15: when the last publish that returned true is
\* storeSdpOnDweet(sessionId, d, kind), a retrieveSdpFromDweet(sessionId,
\* kind) the relay answers after it returns d, and the two functions name
\* the topic alike.
C15_StoreThenRetrieve ==
    [][(/\ fetchPc \in {"direct", "proxy"}
        /\ Len(kinds') = Len(kinds) + 1
        /\ pubLog # <<>>
        /\ Last(pubLog).fn = "storeSdp"
        /\ Last(pubLog).sessionId = fetchArgs.sessionId
        /\ Last(pubLog).type = fetchArgs.type)
       => /\ fetchResult'.returned
          /\ fetchResult'.v = Last(pubLog).payload
          /\ StoreThingName(fetchArgs.sessionId, fetchArgs.type)
                = FetchThingName(fetchArgs.sessionId, fetchArgs.type)]_vars

\* ------------------------------------------------------------------------
\* generateSessionId
\* ------------------------------------------------------------------------

\* The values Math.random() can return, as numerators over 2^RandomBits.
Randoms == 0..(2 ^ RandomBits - 1)

\* The digit d of a radix up to 36, as toString(radix) writes it.
RadixDigit(d) == IF d < 10 THEN 48 + d ELSE 97 + (d - 10)

RECURSIVE FractionDigits(_, _)
\* The base-36 digits of the fraction num / den; the expansion ends since
\* den is a power of two.
FractionDigits(num, den) ==
    IF num = 0 THEN <<>>
    ELSE <<RadixDigit((num * 36) \div den)>>
             \o FractionDigits((num * 36) % den, den)

\* (r / 2^RandomBits).toString(36) for r in Randoms: "0" for zero, else
\* "0." and the digits of the fraction.
ToString36(r) ==
    IF r = 0 THEN <<48>>
    ELSE <<48, 46>> \o FractionDigits(r, 2 ^ RandomBits)

\* s.substring(from, to) for 0 <= from <= to.
Substring(s, from, to) ==
    LET a == IF from > Len(s) THEN Len(s) ELSE from
        b == IF to > Len(s) THEN Len(s) ELSE to
    IN  SubSeq(s, a + 1, b)

\* s.toUpperCase() for a text of digits, "." and the letters a-z.
ToUpperCase(s) ==
    [i \in 1..Len(s) |-> IF s[i] >= 97 /\ s[i] <= 122 THEN s[i] - 32 ELSE s[i]]

\* Math.random().toString(36).substring(2, 8).toUpperCase()
SessionIdOf(r) == ToUpperCase(Substring(ToString36(r), 2, 8))

\* A call generateSessionId(), with Math.random() returning r / 2^RandomBits.
GenerateSessionId ==
    \E r \in Randoms :
        /\ ~generatedId.called
        /\ random' = r
        /\ generatedId' = [called |-> TRUE, s |-> SessionIdOf(r)]

SessionInit ==
    /\ CodecIdle
    /\ CoordIdle
    /\ RelayIdle
    /\ ExchIdle
    /\ ShapeIdle
    /\ SessionIdle
    /\ UrlIdle
    /\ LocalIdle
    /\ MsgIdle
    /\ TopicIdle
    /\ EventIdle

SessionNext == GenerateSessionId

SpecSession ==
    SessionInit /\
    [][SessionNext /\ UNCHANGED <<codecVars, coordVars, fetchVars, exchVars,
                                  shapeVars, urlVars, localVars, msgVars,
                                 topicVars, eventVars, histVars,
                                 handshakeVars>>]_vars

\* An uppercase base-36 digit: 0-9 or A-Z.
IsUpperBase36(c) == (c >= 48 /\ c <= 57) \/ (c >= 65 /\ c <= 90)

\* C16: every identifier generateSessionId returns has exactly 6
\* characters, each an uppercase base-36 digit.
C16_SixUpperBase36 ==
    generatedId.called =>
        /\ Len(generatedId.s) = 6
        /\ \A i \in 1..Len(generatedId.s) : IsUpperBase36(generatedId.s[i])

\* ------------------------------------------------------------------------
\* The coordinator: faults of the engine
\* ------------------------------------------------------------------------

\* C17: no init call rejects, whatever the engine does with the operations
\* the call awaits.
C17_NoFaultPropagates ==
    \A t \in EngineIds : tasks[t].step # "rejected"

\* C18: setRemoteDescription called on a coordinator with no engine makes
\* no engine call, raises no error and leaves every coordinator field and
\* every engine as it was.
C18_NoEngineNoOp ==
    [][(IsCallOf("setRemoteDescription") /\ pc = 0) =>
            /\ ~call'.ret
            /\ ~call'.threw
            /\ engines' = engines
            /\ UNCHANGED <<pc, dataChannel, isInitiator, channels, tasks>>
      ]_vars

\* C18 witness: setRemoteDescription was called on a coordinator that has
\* no engine.
C18_Witness ==
    /\ call.op = "setRemoteDescription"
    /\ pc = 0
    /\ ~call.ret
    /\ \A e \in EngineIds : engines[e].settingRemote = "none"

\* ------------------------------------------------------------------------
\* The two shapes of a relay response
\* ------------------------------------------------------------------------

\* Published bodies: descriptions under both kinds, and candidates.
ShapeBodies ==
    {PublishedBodyAt(JStr(type), Description(dt, cs), 1) :
        type \in SdpTypes, dt \in {StrOffer, StrAnswer},
        cs \in SeqsUpTo({97, 233}, MaxStrLen)}
    \cup {IceBodyAt(c, 1) : c \in Candidates \ {JNull}}

\* The response body that carries the published body P in a shape.
InShape(P, shape) == IF shape = "envelope" THEN Envelope(P) ELSE P

\* What retrieveSdpFromDweet returns when every attempt gets the response
\* resp: the decoded description, or null.
SdpResultOf(resp) ==
    LET Give(o) == IF o.kind \in {"ok", "undecodable"} THEN o.v ELSE JNull
    IN  Strict(Give, Outcome(resp))

\* What retrieveIceCandidatesFromDweet returns for the response resp.
IceResultOf(resp) == IceOutcome(resp).v

\* One of the two functions reads the published body in one of the two
\* shapes.
ReadShape(fn, shape) ==
    /\ ~shapeResults[<<fn, shape>>].read
    /\ \E text \in {JsonStringify(InShape(shapeBody, shape))} :
        \E v \in {IF fn = "sdp"
                  THEN SdpResultOf([ok |-> TRUE, body |-> text])
                  ELSE IceResultOf([ok |-> TRUE, body |-> text])} :
            shapeResults' = [shapeResults EXCEPT ![<<fn, shape>>] =
                                [read |-> TRUE, v |-> v]]
    /\ UNCHANGED shapeBody

RetrieveSdpFromEnvelope == ReadShape("sdp", "envelope")
RetrieveSdpFromBare == ReadShape("sdp", "bare")
RetrieveIceFromEnvelope == ReadShape("ice", "envelope")
RetrieveIceFromBare == ReadShape("ice", "bare")

ShapesInit ==
    /\ CodecIdle
    /\ CoordIdle
    /\ RelayIdle
    /\ ExchIdle
    /\ shapeBody \in ShapeBodies
    /\ shapeResults = [c \in ShapeCases |-> NotRead]
    /\ SessionIdle
    /\ UrlIdle
    /\ LocalIdle
    /\ MsgIdle
    /\ TopicIdle
    /\ EventIdle

ShapesNext ==
    \/ RetrieveSdpFromEnvelope
    \/ RetrieveSdpFromBare
    \/ RetrieveIceFromEnvelope
    \/ RetrieveIceFromBare

SpecShapes ==
    ShapesInit /\
    [][ShapesNext /\ UNCHANGED <<codecVars, coordVars, fetchVars, exchVars,
                                 sessionVars, urlVars, localVars, msgVars,
                                 topicVars, eventVars, histVars,
                                 handshakeVars>>]_vars

\* C19: for every published body, each of the two functions returns the
\* same for the envelope shape and for the bare shape.
C19_ShapesNormalized ==
    \A fn \in {"sdp", "ice"} :
        (shapeResults[<<fn, "envelope">>].read
            /\ shapeResults[<<fn, "bare">>].read)
        => shapeResults[<<fn, "envelope">>].v = shapeResults[<<fn, "bare">>].v

\* ------------------------------------------------------------------------
\* extractSessionFromUrl (webrtc-connection.js 950-956)
\* ------------------------------------------------------------------------

StrS == <<115>>                                  \* "s"
StrSession == <<115, 101, 115, 115, 105, 111, 110>> \* "session"
StrType == <<116, 121, 112, 101>>                \* "type"

\* The names a parameter of the page address has here.
ParamNames == {StrS, StrSession, StrType}

\* The values as they are spelled in the address: "", "A1", "%42+" (which
\* reads "B ") and "answer".
ParamSpellings ==
    {<<>>, <<65, 49>>, <<37, 52, 50, 43>>, <<97, 110, 115, 119, 101, 114>>}

\* name=value
Spelled(pair) == pair[1] \o <<61>> \o pair[2]

\* The parameters joined with "&".
Ampersanded(ps) ==
    Join([i \in 1..Len(ps) |->
            IF i = 1 THEN Spelled(ps[i]) ELSE <<38>> \o Spelled(ps[i])])

\* window.location.search of an address with the parameters ps: empty
\* without a query, "?" and the query otherwise.
SearchOf(ps) == IF Len(ps) = 0 THEN <<>> ELSE <<63>> \o Ampersanded(ps)

Searches ==
    {SearchOf(ps) : ps \in SeqsUpTo(ParamNames \X ParamSpellings, MaxParams)}

\* new URLSearchParams(search) reads the text after a leading "?".
QueryOf(s) == IF Len(s) > 0 /\ s[1] = 63 THEN Tail(s) ELSE s

\* The positions that bound the pieces of the query q: before its first
\* character, each "&", and after its last character.
Cuts(q) == {0} \cup {i \in 1..Len(q) : q[i] = 38} \cup {Len(q) + 1}

\* The piece of q that starts after the cut c.
PieceAt(q, c) ==
    LET next == CHOOSE d \in Cuts(q) :
                    d > c /\ \A e \in Cuts(q) : e > c => d <= e
    IN  SubSeq(q, c + 1, next - 1)

\* The length of the name of the piece p: up to its first "=".
NameEnd(p) ==
    IF \E i \in 1..Len(p) : p[i] = 61
    THEN (CHOOSE i \in 1..Len(p) :
              p[i] = 61 /\ \A j \in 1..(i - 1) : p[j] # 61) - 1
    ELSE Len(p)

\* Each "+" reads as a space.
PlusToSpace(cs) == [i \in 1..Len(cs) |-> IF cs[i] = 43 THEN 32 ELSE cs[i]]

\* A name or a value as URLSearchParams reads it (the texts read here are
\* ASCII).
FormDecode(cs) == PercentDecode(PlusToSpace(cs))

NameOf(p) == FormDecode(SubSeq(p, 1, NameEnd(p)))
ValueOf(p) == FormDecode(SubSeq(p, NameEnd(p) + 2, Len(p)))

\* new URLSearchParams(s).get(name): the value of the first parameter
\* called name, null when there is none.  Empty pieces are no parameters.
ParamsGet(s, name) ==
    LET q == QueryOf(s)
        hits == {c \in Cuts(q) \ {Len(q) + 1} :
                    PieceAt(q, c) # <<>> /\ NameOf(PieceAt(q, c)) = name}
    IN  IF hits = {} THEN JNull
        ELSE JStr(ValueOf(PieceAt(q,
                 CHOOSE c \in hits : \A d \in hits : c <= d)))

\* a || b
OrElse(a, b) == IF Truthy(a) THEN a ELSE b

\* The type when only a missing parameter were replaced by 'offer'.
TypeOfWhenAbsent(s) ==
    IF ParamsGet(s, StrType) = JNull THEN StrOffer ELSE ParamsGet(s, StrType)

\* params.get('type') || 'offer'
TypeOf(s) == OrElse(ParamsGet(s, StrType), StrOffer)

\* params.get('s') || params.get('session')
SessionIdOfUrl(s) == OrElse(ParamsGet(s, StrS), ParamsGet(s, StrSession))

\* extractSessionFromUrl() for window.location.search = s: [called, isNull,
\* sessionId, type].
ExtractedFrom(s) ==
    IF Truthy(SessionIdOfUrl(s))
    THEN [called |-> TRUE, isNull |-> FALSE,
          sessionId |-> SessionIdOfUrl(s).s, type |-> TypeOf(s).s]
    ELSE [called |-> TRUE, isNull |-> TRUE, sessionId |-> <<>>,
          type |-> <<>>]

\* A call extractSessionFromUrl().
ExtractSessionFromUrl ==
    /\ ~extracted.called
    /\ extracted' = Strict(ExtractedFrom, search)
    /\ UNCHANGED search

UrlInit ==
    /\ CodecIdle
    /\ CoordIdle
    /\ RelayIdle
    /\ ExchIdle
    /\ ShapeIdle
    /\ SessionIdle
    /\ search \in Searches
    /\ extracted = NotExtracted
    /\ LocalIdle
    /\ MsgIdle
    /\ TopicIdle
    /\ EventIdle

UrlNext == ExtractSessionFromUrl

SpecUrl ==
    UrlInit /\
    [][UrlNext /\ UNCHANGED <<codecVars, coordVars, fetchVars, exchVars,
                              shapeVars, sessionVars, localVars, msgVars,
                                 topicVars, eventVars, histVars,
                                 handshakeVars>>]_vars

\* Whether the query of the address carries a value under name: the
\* parameter is there and its value is not empty.
Carries(name) ==
    /\ ParamsGet(search, name) # JNull
    /\ ParamsGet(search, name).s # <<>>

\* The session part of C20: the value of 's' when it carries one, else the
\* value of 'session' when it carries one, else null is returned.
SessionAsClaimed ==
    /\ Carries(StrS) =>
          ~extracted.isNull
          /\ extracted.sessionId = ParamsGet(search, StrS).s
    /\ (~Carries(StrS) /\ Carries(StrSession)) =>
          ~extracted.isNull
          /\ extracted.sessionId = ParamsGet(search, StrSession).s
    /\ (~Carries(StrS) /\ ~Carries(StrSession)) => extracted.isNull

\* C20 as stated: extractSessionFromUrl returns the session as claimed,
\* and the type is the 'type' parameter, or 'offer' when the parameter is
\* absent.
C20_TypeOrOfferWhenAbsent ==
    extracted.called =>
        /\ SessionAsClaimed
        /\ ~extracted.isNull =>
              extracted.type =
                  IF ParamsGet(search, StrType) = JNull THEN StrOffer.s
                  ELSE ParamsGet(search, StrType).s

\* C20, amended: extractSessionFromUrl returns the session as claimed, and
\* the type is the 'type' parameter, or 'offer' when the parameter is
\* absent or empty.
C20_TypeOrOfferWhenAbsentOrEmpty ==
    extracted.called =>
        /\ SessionAsClaimed
        /\ ~extracted.isNull =>
              extracted.type =
                  IF Carries(StrType) THEN ParamsGet(search, StrType).s
                  ELSE StrOffer.s

\* A session was returned for an address whose 'type' parameter is there
\* and empty, 's' is empty and 'session' carries the code.
C20_Witness ==
    /\ extracted.called
    /\ ~extracted.isNull
    /\ ParamsGet(search, StrType) = JStr(<<>>)
    /\ ParamsGet(search, StrS) = JStr(<<>>)
    /\ extracted.sessionId = <<66, 32>>
    /\ extracted.type = StrOffer.s

\* ------------------------------------------------------------------------
\* The local cache: storeSdp, retrieveSdp (webrtc-connection.js 820-837)
\* ------------------------------------------------------------------------

StrSdpUnderscore == <<115, 100, 112, 95>>   \* "sdp_"
StrUnderscoreTime == <<95, 116, 105, 109, 101>> \* "_time"

\* `sdp_${sessionId}_${type}`
SdpKey(sessionId, type) == StrSdpUnderscore \o sessionId \o <<95>> \o type

\* `${key}_time`
TimeKey(key) == key \o StrUnderscoreTime

\* sessionStorage.getItem(key): the string under key, or null.
GetItem(st, key) ==
    IF \E e \in st : e.key = key
    THEN JStr((CHOOSE e \in st : e.key = key).value)
    ELSE JNull

\* sessionStorage.setItem(key, value)
SetItem(st, key, value) ==
    {e \in st : e.key # key} \cup {[key |-> key, value |-> value]}

\* The descriptions handed to storeSdp; the last holds a character above
\* U+00FF.
LocalDescriptions ==
    {Description(StrOffer, <<97>>), Description(StrOffer, <<98>>),
     Description(StrAnswer, <<8364>>)}

\* sessionStorage after storeSdp(sessionId, d, type) at the time now:
\* [threw, st].  encodeSdp runs before the first setItem.
StoredLocally(st, sessionId, d, type, now) ==
    LET key == SdpKey(sessionId, type)
        enc == encodeSdp(d)
    IN  IF enc.threw THEN [threw |-> TRUE, st |-> st]
        ELSE [threw |-> FALSE,
              st |-> SetItem(SetItem(st, key, enc.s), TimeKey(key),
                             Digits(now))]

\* A call storeSdp(sessionId, d, type); Date.now() grows with the calls.
StoreSdp ==
    \E sessionId \in LocalIds, type \in LocalTypes, d \in LocalDescriptions :
        /\ localCount < MaxStores
        /\ \E r \in {StoredLocally(storage, sessionId, d, type,
                                   localCount + 1)} :
            /\ storage' = r.st
            /\ localCall' = [fn |-> "storeSdp", sessionId |-> sessionId,
                             type |-> type, threw |-> r.threw, v |-> JNull]
        /\ lastStoreSdp' =
              [lastStoreSdp EXCEPT ![<<sessionId, type>>] =
                  [called |-> TRUE, d |-> d]]
        /\ localCount' = localCount + 1

\* retrieveSdp(sessionId, type) on the storage st: [threw, v].
RetrievedLocally(st, sessionId, type) ==
    LET item == GetItem(st, SdpKey(sessionId, type))
    IN  IF Truthy(item) THEN decodeSdp(StrArg(item.s))
        ELSE [threw |-> FALSE, v |-> JNull]

\* A call retrieveSdp(sessionId, type).
RetrieveSdp ==
    \E sessionId \in LocalIds, type \in LocalTypes :
        /\ \E r \in {RetrievedLocally(storage, sessionId, type)} :
            localCall' = [fn |-> "retrieveSdp", sessionId |-> sessionId,
                          type |-> type, threw |-> r.threw, v |-> r.v]
        /\ UNCHANGED <<storage, lastStoreSdp, localCount>>

LocalInit ==
    /\ CodecIdle
    /\ CoordIdle
    /\ RelayIdle
    /\ ExchIdle
    /\ ShapeIdle
    /\ SessionIdle
    /\ UrlIdle
    /\ LocalIdle
    /\ MsgIdle
    /\ TopicIdle
    /\ EventIdle

LocalNext == StoreSdp \/ RetrieveSdp

SpecLocal ==
    LocalInit /\
    [][LocalNext /\ UNCHANGED <<codecVars, coordVars, fetchVars, exchVars,
                                shapeVars, sessionVars, urlVars,
                                msgVars, topicVars, eventVars, histVars,
                                 handshakeVars>>]_vars

\* The keys of the pair <<sessionId, type>>.
KeysOf(sessionId, type) ==
    {SdpKey(sessionId, type), TimeKey(SdpKey(sessionId, type))}

\* What retrieveSdp of the pair has to return: the description of the last
\* storeSdp of the pair, null when there was none.
LastStored(sessionId, type) ==
    IF lastStoreSdp[<<sessionId, type>>].called
    THEN lastStoreSdp[<<sessionId, type>>].d
    ELSE JNull

\* retrieveSdp returned the description last stored for its pair, or null
\* for a pair never stored, and no call raised.
RetrieveReturnsLastStored ==
    /\ ~localCall.threw
    /\ localCall.fn = "retrieveSdp" =>
          localCall.v = LastStored(localCall.sessionId, localCall.type)

\* A storeSdp step writes both keys of its pair and no other key.
StoreWritesItsKeys ==
    (localCount' = localCount + 1) =>
        /\ \A k \in KeysOf(localCall'.sessionId, localCall'.type) :
              GetItem(storage', k) # JNull
        /\ \A e \in storage \cup storage' :
              e.key \notin KeysOf(localCall'.sessionId, localCall'.type)
                  => GetItem(storage', e.key) = GetItem(storage, e.key)

\* C21: retrieveSdp(id, t) returns the description of the last
\* storeSdp(id, d, t), and null for a pair never stored; storeSdp writes the
\* key sdp_<id>_<t> and its timestamp key and changes no other entry.
C21_LocalCache ==
    []RetrieveReturnsLastStored /\ [][StoreWritesItsKeys]_vars

\* ------------------------------------------------------------------------
\* One offer and one answer per session
\* ------------------------------------------------------------------------

\* The topics of the offer and of the answer of the sessions.
SdpTopics == {StoreThingName(sid, type) : sid \in SessionIds, type \in SdpTypes}

\* C22: no step stores, on the topic of an offer or an answer that already
\* holds a description, a different description.
C22_OneOfferOneAnswer ==
    [][\A e \in relayStore : \A f \in relayStore' :
          (e.topic \in SdpTopics /\ f.topic = e.topic)
          => GetProp(f.content, NameSdp) = GetProp(e.content, NameSdp)]_vars

\* ------------------------------------------------------------------------
\* The gathering wait: whichever comes first
\* ------------------------------------------------------------------------

\* The engine of the wait of init call t signals 'complete' in this step.
SignalsComplete(t) ==
    /\ tasks[t].step = "gather"
    /\ engines[tasks[t].on].gathering # "complete"
    /\ engines'[tasks[t].on].gathering = "complete"

\* C23: a wait resolves at the 'complete' signal of its engine when that
\* comes before the timeout, at once when the state is 'complete' as the
\* wait starts, and at the timeout otherwise.
C23_WhicheverComesFirst ==
    [][\A t \in EngineIds :
          /\ SignalsComplete(t) =>
                tasks'[t].step = "done" /\ tasks'[t].via = "event"
          /\ (tasks[t].step = "setLocal" /\ tasks'[t].step \in {"gather", "done"}
                /\ engines'[pc].gathering = "complete") =>
                tasks'[t].step = "done" /\ tasks'[t].via = "immediate"
          /\ (tasks[t].step = "gather" /\ tasks'[t].step # "gather"
                /\ ~SignalsComplete(t)) =>
                /\ tasks'[t].step = "done"
                /\ tasks'[t].via = "timeout"
                /\ WaitedMsTimesTicks(t) = GatherTimeoutMs * GatherTicks
      ]_vars

\* ------------------------------------------------------------------------
\* The order of the engine steps of the init calls
\* ------------------------------------------------------------------------

\* The init calls alone, with the engine's answers, the gathering events
\* and the clock.  close() is left out as well: of what an init call
\* reads it writes only whether an engine is open, which can keep a step
\* of an init call from happening but not change what the step does.
InitCallsNext ==
    \/ InitAsOfferer
    \/ InitAsAnswerer
    \/ Tick
    \/ \E t \in EngineIds :
        \/ EngineResolves(t)
        \/ EngineRejects(t)
        \/ GatherTimeout(t)
        \/ GatheringStateChanges(t)

SpecInitCalls ==
    CoordInit /\ [][InitCallsNext /\ UNCHANGED othersOfCoord]_vars

\* The local description initAsOfferer / initAsAnswerer commits.
LocalOf(role) == IF role = "offerer" THEN "offer" ELSE "answer"

\* Init call t begins its gathering wait in this step (the wait may resolve
\* at once).
WaitBegins(t) ==
    /\ tasks[t].step \notin {"gather", "done"}
    /\ tasks'[t].step \in {"gather", "done"}

\* C24: in both roles, when the gathering wait of an init call begins the
\* call's setLocalDescription has completed: the step before the wait is
\* that await, and the engine it was called on holds the local description.
C24_LocalCommittedBeforeWait ==
    [][\A t \in EngineIds :
          WaitBegins(t) =>
              /\ tasks[t].step = "setLocal"
              /\ engines'[tasks[t].on].local = LocalOf(tasks[t].role)
      ]_vars

\* An offerer call and an answerer call are both in their gathering wait,
\* each with its local description committed.
C24_Witness ==
    \E t, u \in EngineIds :
        /\ tasks[t].role = "offerer" /\ tasks[t].step = "gather"
        /\ tasks[u].role = "answerer" /\ tasks[u].step = "gather"
        /\ engines[t].local = "offer"
        /\ engines[u].local = "answer"

\* The steps of initAsAnswerer in their order.
AnswererOrder ==
    {<<"none", "setRemote">>, <<"setRemote", "createAnswer">>,
     <<"createAnswer", "setLocal">>, <<"setLocal", "gather">>,
     <<"setLocal", "done">>, <<"gather", "done">>}

\* C25: every step of an initAsAnswerer call follows the order: the remote
\* offer is set, the answer is requested once that commit has completed,
\* the answer is committed as local description, the gathering wait runs,
\* and this.pc.localDescription is returned; a call leaves the order only
\* by the rejection of the operation it awaits.
C25_AnswererOrder ==
    [][\A t \in EngineIds :
          (tasks'[t].role = "answerer" /\ tasks'[t].step # tasks[t].step) =>
              \/ /\ tasks'[t].step = "rejected"
                 /\ tasks[t].step \in
                        {"setRemote", "createAnswer", "setLocal"}
              \/ /\ <<tasks[t].step, tasks'[t].step>> \in AnswererOrder
                 /\ tasks'[t].step = "createAnswer" =>
                        engines'[tasks[t].on].remote = tasks[t].arg
                 /\ tasks[t].step = "setLocal" =>
                        engines'[tasks[t].on].local = "answer"
                 /\ tasks'[t].step = "done" =>
                        tasks'[t].result = LocalDescriptionIn(engines', pc')
      ]_vars

\* An initAsAnswerer call has passed its gathering wait and returned the
\* answer of its engine, on which the offer is committed.
C25_Witness ==
    \E t \in EngineIds :
        /\ tasks[t].role = "answerer"
        /\ tasks[t].step = "done"
        /\ tasks[t].via \in {"event", "timeout"}
        /\ tasks[t].result.type = "answer"
        /\ engines[t].remote # "none"
        /\ engines[t].local = "answer"

\* ------------------------------------------------------------------------
\* Who creates the data channel
\* ------------------------------------------------------------------------

\* The engine's channel-acceptance event on engine e takes place in this
\* step: a channel appears on the engine of an answerer call, outside any
\* call of a coordinator method.
ChannelAccepted(e) ==
    /\ tasks[e].role = "answerer"
    /\ channels[e].readyState = "none"
    /\ channels'[e].readyState # "none"
    /\ call' = NoCall

\* C26: a channel is requested from an engine only by initAsOfferer, once
\* and ordered, on the engine it creates; the engine of an answerer call
\* never receives a request; and this.dataChannel changes only in
\* initAsOfferer or by the channel-acceptance event of an answerer's engine.
C26_OnlyOffererCreatesChannel ==
    [][/\ \A e \in EngineIds :
            /\ engines'[e].channelRequests # engines[e].channelRequests =>
                  /\ call'.op = "initAsOfferer"
                  /\ e = pc'
                  /\ engines[e].st = "absent"
            /\ tasks'[e].role = "offerer" =>
                  engines'[e].channelRequests = <<ColorsChannel>>
            /\ tasks'[e].role = "answerer" =>
                  engines'[e].channelRequests = <<>>
       /\ dataChannel' # dataChannel =>
            \/ call'.op = "initAsOfferer" /\ dataChannel' = pc'
            \/ ChannelAccepted(dataChannel')
      ]_vars

\* An offerer's engine got its one request, and the channel reference is
\* the channel the engine of an answerer call accepted.
C26_Witness ==
    \E t, u \in EngineIds :
        /\ tasks[t].role = "offerer"
        /\ engines[t].channelRequests = <<ColorsChannel>>
        /\ tasks[u].role = "answerer"
        /\ engines[u].channelRequests = <<>>
        /\ dataChannel = u
        /\ channels[u].readyState = "open"

\* ------------------------------------------------------------------------
\* The message handler of a data channel (webrtc-connection.js 690-699)
\* ------------------------------------------------------------------------

\* The values whose JSON text arrives as a message.
MessageValues ==
    {JStr(<<97>>), JNum(7), JNull, Description(StrOffer, <<97>>)}

\* Texts that are no JSON: "", "{", "a", "7,", and '{"sdp":}'.
MalformedTexts ==
    {<<>>, <<123>>, <<97>>, <<55, 44>>,
     <<123, 34, 115, 100, 112, 34, 58, 125>>}

\* The message events: [data, ok, v] with the text received, whether it is
\* JSON, and the value it stands for.  " 7" is JSON with white space.
MessageEvents ==
    {[data |-> JsonStringify(v), ok |-> TRUE, v |-> v] : v \in MessageValues}
    \cup {[data |-> <<32, 55>>, ok |-> TRUE, v |-> JNum(7)]}
    \cup {[data |-> t, ok |-> FALSE, v |-> JNull] : t \in MalformedTexts}

\* The handler without its try block: a SyntaxError of JSON.parse and an
\* error of the callback leave the handler.
HandledUnguarded(data, hasCallback, callbackThrows) ==
    LET parsed == JsonParse(data)
    IN  IF parsed.threw THEN [invoked |-> FALSE, v |-> JNull, escaped |-> TRUE]
        ELSE IF hasCallback
        THEN [invoked |-> TRUE, v |-> parsed.v, escaped |-> callbackThrows]
        ELSE [invoked |-> FALSE, v |-> JNull, escaped |-> FALSE]

\* channel.onmessage for event.data = data: [invoked, v, escaped].  Inside
\* one try block, JSON.parse(event.data), then the callback, if there is
\* one, with the parsed value; the catch logs whatever was thrown.
Handled(data, hasCallback, callbackThrows) ==
    LET parsed == JsonParse(data)
    IN  IF parsed.threw THEN [invoked |-> FALSE, v |-> JNull, escaped |-> FALSE]
        ELSE IF hasCallback
        THEN [invoked |-> TRUE, v |-> parsed.v, escaped |-> FALSE]
        ELSE [invoked |-> FALSE, v |-> JNull, escaped |-> FALSE]

\* onMessage(callback)
OnMessage ==
    /\ ~onMessageCallback
    /\ onMessageCallback' = TRUE
    /\ UNCHANGED <<msgReceived, msgDelivered, msgEscaped>>

\* A message event on the channel; the callback may throw.
MessageArrives ==
    \E m \in MessageEvents, callbackThrows \in BOOLEAN :
        /\ Len(msgReceived) < MaxMessages
        /\ ~msgEscaped
        /\ \E r \in {Handled(m.data, onMessageCallback, callbackThrows)} :
            /\ msgDelivered' = IF r.invoked THEN Append(msgDelivered, r.v)
                               ELSE msgDelivered
            /\ msgEscaped' = r.escaped
        /\ msgReceived' =
              Append(msgReceived,
                     [data |-> m.data, ok |-> m.ok, v |-> m.v,
                      hadCallback |-> onMessageCallback])
        /\ UNCHANGED onMessageCallback

MessagesInit ==
    /\ CodecIdle
    /\ CoordIdle
    /\ RelayIdle
    /\ ExchIdle
    /\ ShapeIdle
    /\ SessionIdle
    /\ UrlIdle
    /\ LocalIdle
    /\ MsgIdle
    /\ TopicIdle
    /\ EventIdle

MessagesNext == OnMessage \/ MessageArrives

SpecMessages ==
    MessagesInit /\
    [][MessagesNext /\ UNCHANGED <<codecVars, coordVars, fetchVars, exchVars,
                                   shapeVars, sessionVars, urlVars,
                                   localVars, topicVars, eventVars, histVars,
                                 handshakeVars>>]_vars

RECURSIVE ValuesDue(_)
\* The values of the well-formed messages among the events evs that came
\* while a callback was set, in their order.
ValuesDue(evs) ==
    IF evs = <<>> THEN <<>>
    ELSE LET e == evs[Len(evs)]
             before == ValuesDue(SubSeq(evs, 1, Len(evs) - 1))
         IN  IF e.ok /\ e.hadCallback THEN Append(before, e.v) ELSE before

\* C27: no error leaves the handler, and the callback has been invoked
\* with exactly the parsed values of the well-formed messages that came
\* while it was set, in order: never for a malformed message, and also for
\* the well-formed messages that came after a malformed one.
C27_MalformedDiscarded ==
    /\ ~msgEscaped
    /\ msgDelivered = ValuesDue(msgReceived)

\* A well-formed message was delivered after a malformed one had come on
\* the same channel with the callback set.
C27_Witness ==
    /\ Len(msgReceived) >= 2
    /\ ~msgReceived[1].ok
    /\ msgReceived[1].hadCallback
    /\ msgReceived[2].ok
    /\ msgDelivered = <<msgReceived[2].v>>
    /\ ~msgEscaped

\* ------------------------------------------------------------------------
\* The candidate topics of the two roles
\* ------------------------------------------------------------------------

\* C28: each side fetches under the name the opposite role publishes
\* under, and a candidate retrieveIceCandidatesFromDweet(sessionId,
\* isOfferer) returns was never published by that same side.
C28_NeverOwnCandidate ==
    /\ \A sid \in SessionIds, isOfferer \in BOOLEAN :
          /\ IceFetchThingName(sid, isOfferer)
                = IceStoreThingName(sid, ~isOfferer)
          /\ IceFetchThingName(sid, isOfferer)
                # IceStoreThingName(sid, isOfferer)
    /\ (icePc = "done" /\ iceResult.v # JNull) =>
          \A i \in 1..Len(pubLog) :
              (/\ JNum(pubLog[i].now) = GetProp(iceResult.v, NameTimestamp)
               /\ pubLog[i].fn = "storeIce"
               /\ pubLog[i].sessionId = iceArgs.sessionId)
              => pubLog[i].isOfferer # iceArgs.isOfferer

\* ------------------------------------------------------------------------
\* Topic names of different sessions
\* ------------------------------------------------------------------------

\* The length of a session identifier: substring(2, 8).
SessionIdLen == 6

\* Session identifiers of SessionIdLen characters out of "A" and "9",
\* among them identifiers that differ in one character only.
TopicIds == [1..SessionIdLen -> {65, 57}]

\* The identifiers of the second session: "AAAAAA", "AAAAA9", "ZAAAAA".
OtherTopicIds ==
    {[i \in 1..SessionIdLen |-> 65],
     [i \in 1..SessionIdLen |-> IF i = SessionIdLen THEN 57 ELSE 65],
     [i \in 1..SessionIdLen |-> IF i = 1 THEN 90 ELSE 65]}

TopicKinds == {"offer", "answer", "ice-offerer", "ice-answerer"}

\* The URL a publish of kind posts to: storeSdpOnDweet(sid, .., kind) for
\* a description, storeIceCandidateOnDweet(sid, .., isOfferer) for a
\* candidate.
StoreUrlOf(sid, kind) ==
    StoreEndpoint \o
        (CASE kind = "offer" -> StoreThingName(sid, StrOffer.s)
           [] kind = "answer" -> StoreThingName(sid, StrAnswer.s)
           [] kind = "ice-offerer" -> IceStoreThingName(sid, TRUE)
           [] kind = "ice-answerer" -> IceStoreThingName(sid, FALSE))

\* The URL a fetch of kind gets: retrieveSdpFromDweet(sid, kind) for a
\* description; the candidates of a role are fetched by the other role.
FetchUrlOf(sid, kind) ==
    FetchEndpoint \o
        (CASE kind = "offer" -> FetchThingName(sid, StrOffer.s)
           [] kind = "answer" -> FetchThingName(sid, StrAnswer.s)
           [] kind = "ice-offerer" -> IceFetchThingName(sid, FALSE)
           [] kind = "ice-answerer" -> IceFetchThingName(sid, TRUE))

\* The topics the relay reads for the two pairs, and what a fetch of pair
\* B is answered before and after a publish of pair A on a relay that
\* holds a value of pair B.
DerivedFor(a, b) ==
    LET postB == PostRequest(StoreUrlOf(b.sid, b.kind), <<49>>)
        postA == PostRequest(StoreUrlOf(a.sid, a.kind), <<50>>)
        held == RelayReceives({}, postB)
    IN  [called |-> TRUE,
         storeA |-> ArrivingTopic(StoreUrlOf(a.sid, a.kind), StoreEndpoint),
         fetchA |-> ArrivingTopic(FetchUrlOf(a.sid, a.kind), FetchEndpoint),
         storeB |-> ArrivingTopic(StoreUrlOf(b.sid, b.kind), StoreEndpoint),
         fetchB |-> ArrivingTopic(FetchUrlOf(b.sid, b.kind), FetchEndpoint),
         before |-> RelayAnswers(held, FetchUrlOf(b.sid, b.kind)).body,
         after |-> RelayAnswers(RelayReceives(held, postA),
                                FetchUrlOf(b.sid, b.kind)).body]

\* The topics of the two pairs are derived, and pair A is published.
DeriveTopics ==
    /\ ~derived.called
    /\ derived' = Strict(LAMBDA a : DerivedFor(a, topicB), topicA)
    /\ UNCHANGED <<topicA, topicB>>

TopicsInit ==
    /\ CodecIdle
    /\ CoordIdle
    /\ RelayIdle
    /\ ExchIdle
    /\ ShapeIdle
    /\ SessionIdle
    /\ UrlIdle
    /\ LocalIdle
    /\ MsgIdle
    /\ EventIdle
    /\ topicA \in [sid : TopicIds, kind : TopicKinds]
    /\ topicB \in [sid : OtherTopicIds, kind : TopicKinds]
    /\ derived = NotDerived

TopicsNext == DeriveTopics

SpecTopics ==
    TopicsInit /\
    [][TopicsNext /\ UNCHANGED <<codecVars, coordVars, fetchVars, exchVars,
                                 shapeVars, sessionVars, urlVars, localVars,
                                 msgVars, eventVars, histVars,
                                 handshakeVars>>]_vars

\* C29: for identifiers of six uppercase alphanumeric characters, a pair
\* (sessionId, kind) has one topic, two different pairs have different
\* topics, and a publish of one pair leaves what a fetch of another pair
\* is answered unchanged.
C29_NoTopicCollision ==
    derived.called =>
        /\ derived.storeA = derived.fetchA
        /\ derived.storeB = derived.fetchB
        /\ topicA # topicB =>
              /\ derived.storeA # derived.storeB
              /\ derived.after = derived.before

\* The two pairs are of different sessions whose identifiers differ in
\* the last character, with the same kind; the relay held the value of
\* pair B and the publish of pair A left its answer as it was.
C29_Witness ==
    /\ derived.called
    /\ topicA.sid # topicB.sid
    /\ \A i \in 1..(SessionIdLen - 1) : topicA.sid[i] = topicB.sid[i]
    /\ topicA.kind = topicB.kind
    /\ derived.before = JsonStringify(Envelope(JNum(1)))
    /\ derived.after = derived.before

\* ------------------------------------------------------------------------
\* The two fetches from the relay, side by side
\* ------------------------------------------------------------------------

\* A call retrieveIceCandidatesFromDweet("A1", true), made once the call of
\* retrieveSdpFromDweet has ended.
FetchIce ==
    /\ fetchPc = "done"
    /\ RetrieveIceCandidatesFromDweet(<<65, 49>>, TRUE)

\* The fetch awaited by retrieveIceCandidatesFromDweet resolves.
IceFetchRespondsAny == \E resp \in Responses : IceFetchResponds(resp)

FetchesInit ==
    /\ CodecIdle
    /\ CoordIdle
    /\ RelayIdle
    /\ ExchIdle
    /\ ShapeIdle
    /\ SessionIdle
    /\ UrlIdle
    /\ LocalIdle
    /\ MsgIdle
    /\ TopicIdle
    /\ EventIdle

FetchesNext ==
    \/ (RetrieveSdpFromDweet /\ UNCHANGED iceVars)
    \/ (DirectFetchFails /\ UNCHANGED iceVars)
    \/ (ProxyFetchFails /\ UNCHANGED iceVars)
    \/ (FetchResponds /\ UNCHANGED iceVars)
    \/ (DelayElapses /\ UNCHANGED iceVars)
    \/ (FetchIce /\ UNCHANGED relayVars)
    \/ (IceDirectFetchFails /\ UNCHANGED relayVars)
    \/ (IceProxyFetchFails /\ UNCHANGED relayVars)
    \/ (IceFetchRespondsAny /\ UNCHANGED relayVars)

SpecFetches ==
    FetchesInit /\
    [][FetchesNext /\ UNCHANGED <<codecVars, coordVars, fetchArgs, pubVars,
                                  pubLog, relayStore, utilVars>>]_vars

\* The steps of one call of retrieveIceCandidatesFromDweet: the direct
\* request, then either the end of the call or the request through the
\* proxy, then the end of the call.
IceCallSteps ==
    {<<"direct", "proxy">>, <<"direct", "done">>, <<"proxy", "done">>}

\* A call of retrieveIceCandidatesFromDweet begins.
IceCallBegins ==
    /\ icePc \in {"idle", "done"}
    /\ icePc' = "direct"
    /\ iceResponse' = NoResponse
    /\ iceResult' = NoOutcome

\* retrieveIceCandidatesFromDweet makes one direct request, asks the proxy
\* only when no response came to the direct request, and ends with the
\* first response or with the failure of the proxy request.
IceSingleAttempt ==
    /\ icePc' # icePc =>
        \/ IceCallBegins
        \/ /\ <<icePc, icePc'>> \in IceCallSteps
           /\ iceArgs' = iceArgs
    /\ icePc' = "proxy" /\ icePc # "proxy" =>
        /\ icePc = "direct"
        /\ iceResponse = NoResponse
        /\ UNCHANGED <<iceResponse, iceResult>>
    /\ iceResponse' # iceResponse /\ ~IceCallBegins =>
        /\ icePc' = "done"
        /\ iceResult'.returned
        /\ ~iceResponse'.ok => iceResult'.v = JNull
    /\ icePc' = icePc => UNCHANGED iceVars

\* An attempt of retrieveSdpFromDweet asks the proxy only when no response
\* came to its direct request.
SdpProxyAfterRejection ==
    /\ fetchPc' = "proxy" /\ fetchPc # "proxy" =>
        /\ fetchPc = "direct"
        /\ requests' = requests + 1
        /\ UNCHANGED <<attempt, response, kinds, fetchResult>>
    /\ response' # response /\ ~response'.ok =>
        /\ fetchPc' \in {"delay", "done"}
        /\ kinds' = Append(kinds, "http")
        /\ requests' = requests

\* C30: retrieveIceCandidatesFromDweet makes a single attempt, one direct
\* request and one proxy request only when the direct request fails at the
\* network level, with no loop and no delay; each attempt of
\* retrieveSdpFromDweet uses the proxy only after a network-level failure
\* of its direct request, never after a response that is not ok.
C30_FetchProxyFallback ==
    [][IceSingleAttempt /\ SdpProxyAfterRejection]_vars

\* retrieveIceCandidatesFromDweet waits for the proxy after its direct
\* request was rejected; retrieveSdpFromDweet has ended after an attempt
\* that asked the proxy and an attempt that got a response that is not ok.
C30_Witness ==
    /\ icePc = "proxy"
    /\ fetchPc = "done"
    /\ requests > Len(kinds)
    /\ \E i \in 1..Len(kinds) : kinds[i] = "http"

\* ------------------------------------------------------------------------
\* Callbacks and engine events (webrtc-connection.js 570-581, 616-627,
\* 646-648, 671-700, 718-734)
\* ------------------------------------------------------------------------

\* Events fired on the engines and channels of one coordinator.
MaxEvents == 2

\* A registration that keeps a callback that is already there.
RegisteredKeepingFirst(old, callback) ==
    IF old = NoCallback THEN callback ELSE old

\* this.on<Kind>Callback = callback: the field after the registration.
Registered(old, callback) == callback

\* The method that registers the callback of a kind.
RegisterOp(kind) ==
    CASE kind = "message" -> "onMessage"
      [] kind = "connection" -> "onConnectionStateChange"
      [] kind = "channel" -> "onDataChannelStateChange"
      [] kind = "candidate" -> "onIceCandidate"

\* onMessage(callback), onConnectionStateChange(callback),
\* onDataChannelStateChange(callback), onIceCandidate(callback).
Register(kind, callback) ==
    /\ CountCall
    /\ slots' = [slots EXCEPT ![kind] = Registered(@, callback)]
    /\ call' = Called(RegisterOp(kind), FALSE, FALSE, JStr(callback))
    /\ UNCHANGED <<pc, dataChannel, isInitiator, engines, channels, tasks>>
    /\ UNCHANGED <<invocations, event, eventsFired, errorsLogged>>

\* if (this.on<Kind>Callback) this.on<Kind>Callback(arg): the invocations
\* a handler makes, none when the field is null.
Invoke(kind, arg) ==
    IF slots[kind] # NoCallback
    THEN <<[kind |-> kind, cb |-> slots[kind], arg |-> arg]>>
    ELSE <<>>

\* The candidates of an icecandidate event: "c1", and null at the end of
\* the candidates.
EventCandidates == {JStr(<<99, 49>>), JNull}

\* pc.onicecandidate forwarding the end of the candidates as well.
ForwardedAlways(candidate) == Invoke("candidate", candidate)

\* pc.onicecandidate: if (event.candidate && this.onIceCandidateCallback)
\* this.onIceCandidateCallback(event.candidate).
Forwarded(candidate) ==
    IF Truthy(candidate) THEN Invoke("candidate", candidate) ELSE <<>>

\* this.pc.connectionState, read when the handler runs: the state of the
\* engine this.pc holds then.
ConnectionStateRead == JNum(pc)

\* pc.onconnectionstatechange.
ConnectionStateForwarded == Invoke("connection", ConnectionStateRead)

\* channel.onerror telling the channel-state callback.
ErrorForwardedAsClosed(error) == Invoke("channel", JBool(FALSE))

\* channel.onerror: console.error('Data channel error:', error) and
\* nothing else.
ErrorForwarded(error) == <<>>

\* The text of a message event: "7".
EventMessageText == <<55>>

\* The handlers setupDataChannel installs on a channel: the invocations
\* the handler of the event `kind' makes.
ChannelHandler(kind) ==
    CASE kind = "open" -> Invoke("channel", JBool(TRUE))
      [] kind = "close" -> Invoke("channel", JBool(FALSE))
      [] kind = "error" -> ErrorForwarded(JStr(<<101>>))
      [] kind = "message" ->
            LET r == Handled(EventMessageText, slots["message"] # NoCallback,
                             FALSE)
            IN  IF r.invoked THEN Invoke("message", r.v) ELSE <<>>

\* The events of a channel.
ChannelEventKinds == {"open", "close", "error", "message"}

\* An event fires and its handler makes the invocations `made'.
Fires(kind, e, arg, slotKind, made) ==
    /\ eventsFired < MaxEvents
    /\ eventsFired' = eventsFired + 1
    /\ event' = [kind |-> kind, on |-> e, arg |-> arg,
                 slot |-> IF slotKind = "none" THEN NoCallback
                          ELSE slots[slotKind]]
    /\ invocations' = invocations \o made
    /\ UNCHANGED slots

\* Engine e, whose handlers an init call installed, fires icecandidate.
CandidateDiscovered(e) ==
    /\ engines[e].st = "open"
    /\ \E candidate \in EventCandidates :
        Fires("icecandidate", e, candidate, "candidate",
              Forwarded(candidate))
    /\ UNCHANGED errorsLogged

\* Engine e fires connectionstatechange.
ConnectionStateChanges(e) ==
    /\ engines[e].st = "open"
    /\ Fires("connectionstatechange", e, ConnectionStateRead, "connection",
             ConnectionStateForwarded)
    /\ UNCHANGED errorsLogged

\* The channel of engine e, set up by setupDataChannel, fires an event.
ChannelEvent(e) ==
    /\ channels[e].readyState # "none"
    /\ \E kind \in ChannelEventKinds :
        /\ Fires(kind, e, JNull,
                 CASE kind \in {"open", "close"} -> "channel"
                   [] kind = "message" -> "message"
                   [] OTHER -> "none",
                 ChannelHandler(kind))
        /\ errorsLogged' = IF kind = "error" THEN errorsLogged + 1
                           ELSE errorsLogged

EventsInit ==
    /\ CodecIdle
    /\ CoordIdle
    /\ RelayIdle
    /\ ExchIdle
    /\ ShapeIdle
    /\ SessionIdle
    /\ UrlIdle
    /\ LocalIdle
    /\ MsgIdle
    /\ TopicIdle
    /\ EventIdle

\* The init calls up to their first await, where the handlers are
\* installed, the registrations, and the events.  The events are not tied
\* to the negotiation: any order of events is taken.
EventsNext ==
    \/ (InitAsOfferer /\ UNCHANGED eventVars)
    \/ (InitAsAnswerer /\ UNCHANGED eventVars)
    \/ \E kind \in EventKinds, callback \in Callbacks :
          Register(kind, callback)
    \/ \E e \in EngineIds :
        \/ (CandidateDiscovered(e) /\ UNCHANGED coordVars)
        \/ (ConnectionStateChanges(e) /\ UNCHANGED coordVars)
        \/ (ChannelEvent(e) /\ UNCHANGED coordVars)

SpecEvents ==
    EventsInit /\
    [][EventsNext /\ UNCHANGED <<codecVars, fetchVars, exchVars, shapeVars,
                                 sessionVars, urlVars, localVars, msgVars,
                                 topicVars, histVars, handshakeVars>>]_vars


\* An event of one of the kinds ks fires in this step.
EventFires(ks) == eventsFired' = eventsFired + 1 /\ event'.kind \in ks

\* C31: a channel error event is logged only: it invokes no callback and
\* leaves the callback fields and every field of the coordinator as they
\* are.
C31_ErrorLoggedOnly ==
    [][EventFires({"error"}) =>
          /\ invocations' = invocations
          /\ slots' = slots
          /\ errorsLogged' = errorsLogged + 1
          /\ UNCHANGED coordVars]_vars

\* C31 witness: an error event fired on the channel of a coordinator
\* whose channel-state callback is registered, and nothing was invoked.
C31_Witness ==
    /\ event.kind = "error"
    /\ slots["channel"] # NoCallback
    /\ channels[event.on].readyState # "none"
    /\ errorsLogged = 1
    /\ invocations = <<>>

\* The slot an event reads.
SlotOf(kind) ==
    CASE kind = "icecandidate" -> "candidate"
      [] kind = "connectionstatechange" -> "connection"
      [] kind \in {"open", "close"} -> "channel"
      [] kind = "message" -> "message"
      [] OTHER -> "none"

\* C38: each kind of event has one slot: a registration replaces the
\* callback of its kind and of no other kind, nothing else changes a slot,
\* and an event invokes no callback but the one its slot holds at that
\* time, at most once.
C38_SingleSlot ==
    [][ /\ \A k \in EventKinds :
              IsCallOf(RegisterOp(k)) =>
                  /\ slots' = [slots EXCEPT ![k] = call'.arg.s]
                  /\ invocations' = invocations
        /\ slots' # slots => \E k \in EventKinds : IsCallOf(RegisterOp(k))
        /\ invocations' # invocations =>
              /\ EventFires({"icecandidate", "connectionstatechange",
                             "open", "close", "message"})
              /\ \E made \in {[kind |-> SlotOf(event'.kind),
                                cb |-> slots[SlotOf(event'.kind)],
                                arg |-> a] :
                                    a \in {event'.arg, JBool(TRUE),
                                           JBool(FALSE), JNum(7)}} :
                    /\ made.cb # NoCallback
                    /\ invocations' = Append(invocations, made)
      ]_vars

\* C38 witness: two events of one kind were delivered, the first to the
\* callback registered first, the second to the callback that replaced it
\* after the handlers were installed.
C38_Witness ==
    /\ Len(invocations) = 2
    /\ invocations[1].kind = invocations[2].kind
    /\ invocations[1].cb # invocations[2].cb
    /\ invocations[2].cb = slots[invocations[2].kind]

\* The invocations of the candidate callback so far.
CandidateInvocations(invs) ==
    SelectSeq(invs, LAMBDA i : i.kind = "candidate")

\* C39: a candidate event with a candidate that fires while a candidate
\* callback is registered invokes that callback once, with the candidate;
\* a null candidate and a candidate found while no callback is registered
\* invoke nothing; nothing else invokes the candidate callback, a later
\* registration included.
C39_CandidateForwardedOnce ==
    [][ /\ EventFires({"icecandidate"}) =>
              invocations' =
                  IF event'.arg # JNull /\ slots["candidate"] # NoCallback
                  THEN Append(invocations,
                              [kind |-> "candidate",
                               cb |-> slots["candidate"],
                               arg |-> event'.arg])
                  ELSE invocations
        /\ CandidateInvocations(invocations') #
                CandidateInvocations(invocations) =>
                    EventFires({"icecandidate"})
      ]_vars

\* C39 witness: a candidate was discovered while no candidate callback
\* was registered; a callback has been registered since, and nothing was
\* replayed to it.
C39_Witness ==
    /\ event.kind = "icecandidate"
    /\ event.arg # JNull
    /\ event.slot = NoCallback
    /\ slots["candidate"] # NoCallback
    /\ invocations = <<>>

\* ------------------------------------------------------------------------
\* addIceCandidate with its history
\* ------------------------------------------------------------------------

\* addIceCandidate(candidate), counting the calls that passed nothing to
\* an engine.
AddIceCandidateCounted ==
    /\ AddIceCandidate
    /\ withheld' = IF call'.ret THEN withheld ELSE withheld + 1

\* The steps that decide this.pc, the remote descriptions and the
\* candidates the engines receive.
CandidatesNext ==
    \/ AddIceCandidateCounted
    \/ (InitAsOfferer /\ UNCHANGED withheld)
    \/ (InitAsAnswerer /\ UNCHANGED withheld)
    \/ (SetRemoteDescription /\ UNCHANGED withheld)
    \/ (Close /\ UNCHANGED withheld)
    \/ \E t \in EngineIds :
        \/ (EngineResolves(t) /\ UNCHANGED withheld)
        \/ (EngineRejects(t) /\ UNCHANGED withheld)
        \/ (RemoteDescriptionCommitted(t) /\ UNCHANGED withheld)
        \/ (RemoteDescriptionRejected(t) /\ UNCHANGED withheld)

SpecCandidates ==
    CoordInit /\
    [][CandidatesNext /\ UNCHANGED <<codecVars, fetchVars, exchVars,
                                     shapeVars, sessionVars, urlVars,
                                     localVars, msgVars, topicVars,
                                     eventVars, handshakeVars>>]_vars

\* The candidates the engines have received.
Received(engs) == [e \in EngineIds |-> engs[e].iceCalls]

\* C32: a candidate passed to addIceCandidate while this.pc holds no
\* committed remote description reaches no engine in that call, and no
\* later step hands it over: an engine receives a candidate only in a
\* call of addIceCandidate made when its remote description is committed,
\* and then one candidate, that of the call; committing a remote
\* description passes no candidate.
C32_DiscardedNotQueued ==
    [][ /\ IsCallOf("addIceCandidate")
           /\ (pc = 0 \/ engines[pc].remote = "none") =>
              /\ Received(engines') = Received(engines)
              /\ withheld' = withheld + 1
        /\ \A e \in EngineIds :
              engines'[e].iceCalls # engines[e].iceCalls =>
                  /\ IsCallOf("addIceCandidate")
                  /\ e = pc
                  /\ engines[e].remote # "none"
                  /\ engines'[e].iceCalls = engines[e].iceCalls + 1
                  /\ withheld' = withheld
        /\ withheld' # withheld => IsCallOf("addIceCandidate")
      ]_vars

\* C32 witness: a candidate was discarded, the remote description was
\* committed afterwards, and the engine has received nothing but the
\* candidate of the call made since.
C32_Witness ==
    /\ withheld = 1
    /\ call.op = "addIceCandidate"
    /\ call.ret
    /\ pc # 0
    /\ engines[pc].remote # "none"
    /\ engines[pc].iceCalls = 1

\* ------------------------------------------------------------------------
\* The relay-backed handshake of one session (spec.md 4.5), over
\* storeSdpOnDweet, retrieveSdpFromDweet and the relay
\* ------------------------------------------------------------------------

\* The local descriptions the engine of the offerer can return; the last
\* holds a character above U+00FF.
HandshakeOffers ==
    {Description(StrOffer, <<97>>), Description(StrOffer, <<8364>>)}

\* The local descriptions the engine of the answerer can return.
HandshakeAnswers ==
    {Description(StrAnswer, <<98>>), Description(StrAnswer, <<99>>)}

\* The relay once the POST of storeSdpOnDweet(sid, d, type) has arrived.
\* encodeSdp(d) runs before any request: when it throws, nothing is sent.
StoreAfterPublish(store, sid, d, type) ==
    IF encodeSdp(d).threw THEN store
    ELSE RelayReceives(store,
             PostRequest(StoreEndpoint \o StoreThingName(sid, type),
                         JsonStringify(PublishedBodyAt(JStr(type), d, 1))))

\* What an attempt of retrieveSdpFromDweet(sid, type) that the relay
\* answers comes to.
AttemptAnswered(store, sid, type) ==
    Outcome(RelayAnswers(store, FetchEndpoint \o FetchThingName(sid, type)))

\* Offerer: generate sessionId -> beginAsOfferer(); the engine returns the
\* local offer.
OffererBegins ==
    /\ hs.offerer = "none"
    /\ \E sid \in SessionIds, d \in HandshakeOffers :
        hs' = [hs EXCEPT !.sid = sid, !.offer = d, !.offerer = "begun"]
    /\ UNCHANGED relayStore

\* Offerer: publish("<app>-<id>-offer", ...).  The request may not reach
\* the relay; storeSdpOnDweet rejects when encodeSdp throws.
OffererPublishes ==
    /\ hs.offerer = "begun"
    /\ \E arrives \in BOOLEAN :
        /\ relayStore' = IF arrives
                         THEN StoreAfterPublish(relayStore, hs.sid, hs.offer,
                                                StrOffer.s)
                         ELSE relayStore
        /\ hs' = [hs EXCEPT !.offerer =
                     IF encodeSdp(hs.offer).threw THEN "failed"
                     ELSE "published"]

\* A fetch attempt of a peer is not answered, or it is answered with
\* something that is no description: the peer tries again, and gives up
\* (null) after MaxRetries attempts.
AfterFailedAttempt(h, peer, i) ==
    IF h.attempts[i] + 1 >= MaxRetries
    THEN [h EXCEPT !.attempts[i] = @ + 1, ![peer] = "gaveup"]
    ELSE [h EXCEPT !.attempts[i] = @ + 1]

\* Answerer: fetchWithRetry("<app>-<id>-offer") -> decode ->
\* beginAsAnswerer(decoded): one attempt.  With a description decoded, the
\* answerer commits it as its remote description and the engine returns
\* the local answer.
AnswererFetches ==
    /\ hs.sid # <<>>
    /\ hs.answerer \in {"none", "fetching"}
    /\ \E answered \in BOOLEAN, d \in HandshakeAnswers :
        \E r \in {AttemptAnswered(relayStore, hs.sid, StrOffer.s)} :
            hs' = IF answered /\ r.kind = "ok"
                  THEN [hs EXCEPT !.answerer = "begun",
                                  !.answererRemote = r.v, !.answer = d]
                  ELSE IF answered /\ r.kind = "undecodable"
                  THEN [hs EXCEPT !.answerer = "gaveup"]
                  ELSE AfterFailedAttempt(
                           [hs EXCEPT !.answerer = "fetching"],
                           "answerer", 2)
    /\ UNCHANGED relayStore

\* Answerer: publish("<app>-<id>-answer", ...).
AnswererPublishes ==
    /\ hs.answerer = "begun"
    /\ \E arrives \in BOOLEAN :
        relayStore' = IF arrives
                      THEN StoreAfterPublish(relayStore, hs.sid, hs.answer,
                                             StrAnswer.s)
                      ELSE relayStore
    /\ hs' = [hs EXCEPT !.answerer = "published"]

\* Offerer (continued): fetchWithRetry("<app>-<id>-answer") -> decode ->
\* completeWithRemoteDescription(decoded): one attempt.
OffererFetches ==
    /\ hs.offerer \in {"published", "fetching"}
    /\ \E answered \in BOOLEAN :
        \E r \in {AttemptAnswered(relayStore, hs.sid, StrAnswer.s)} :
            hs' = IF answered /\ r.kind = "ok"
                  THEN [hs EXCEPT !.offerer = "complete",
                                  !.offererRemote = r.v]
                  ELSE IF answered /\ r.kind = "undecodable"
                  THEN [hs EXCEPT !.offerer = "gaveup"]
                  ELSE AfterFailedAttempt(
                           [hs EXCEPT !.offerer = "fetching"],
                           "offerer", 1)
    /\ UNCHANGED relayStore

HandshakeNext ==
    \/ OffererBegins
    \/ OffererPublishes
    \/ AnswererFetches
    \/ AnswererPublishes
    \/ OffererFetches

SpecHandshake ==
    EventsInit /\
    [][HandshakeNext /\ UNCHANGED <<codecVars, coordVars, fetchVars, pubVars,
                                    pubLog, iceVars, shapeVars, sessionVars,
                                    urlVars, localVars, msgVars, topicVars,
                                    eventVars, histVars>>]_vars

AttemptsAllowed(n) == IF n > 0 THEN n ELSE 0

ClosedEstablished ==
    /\ pc # 0
    /\ engines[pc].st = "closed"
    /\ engines[pc].local # "none"
    /\ engines[pc].remote # "none"
    /\ channels[pc].readyState = "closed"

\* C35: once close() has been called on an established coordinator, and
\* until an init call is made, isReady() is falsy and sendMessage returns
\* false.
C35_ClosedStaysClosed ==
    ClosedEstablished =>
        /\ ~IsReady
        /\ call.op = "sendMessage" => ~call.ret

\* The engines that are open.
LiveEngines == {e \in EngineIds : engines[e].st = "open"}

\* C36: the coordinator has at most one open engine at any time, and
\* after close() no engine and no channel it created is left open.
C36_OneEngineReleased ==
    /\ Cardinality(LiveEngines) <= 1
    /\ call.op = "close" =>
          /\ LiveEngines = {}
          /\ \A e \in EngineIds :
                channels[e].readyState \in {"none", "closing", "closed"}

\* Init call t is suspended in the gathering wait and the engine it waits
\* on has been closed.
ClosedInWait(t) ==
    tasks[t].step = "gather" /\ engines[tasks[t].on].st = "closed"

\* C37: close() called while an init call is suspended in the gathering
\* wait leaves this.pc and the pending call as they are; the pending call
\* then resumes at the timer, GatherTimeoutMs after the wait began, and
\* returns this.pc.localDescription without raising.
C37_CloseDuringWait ==
    /\ \A t \in EngineIds : ClosedInWait(t) ~> (tasks[t].step = "done")
    /\ [][ \A t \in EngineIds :
              (ClosedInWait(t) /\ tasks'[t].step # "gather") =>
                  /\ tasks'[t].step = "done"
                  /\ tasks'[t].via = "timeout"
                  /\ WaitedMsTimesTicks(t) = GatherTimeoutMs * GatherTicks
                  /\ pc' # 0
                  /\ tasks'[t].result = LocalDescriptionIn(engines', pc')
         ]_vars
    /\ [][ IsCallOf("close") => pc' = pc /\ tasks' = tasks ]_vars

\* C37 witness: close() has just been called on the engine an init call
\* waits on, after the whole timeout has passed: the timer is due.
C37_Witness ==
    \E t \in EngineIds :
        /\ call.op = "close"
        /\ ClosedInWait(t)
        /\ tasks[t].on = pc
        /\ tasks[t].elapsed = GatherTicks
====
